---- MODULE Spec2Model ----
(***************************************************************************)
(* A model of jembadb's row storage engine (src/src/TableRowsFile.js) and  *)
(* of the shard cache of its sharded table (src/src/ShardedTable.js).      *)
(*                                                                         *)
(* Sizes are counted in rows: every stored row costs RowSize = 1 unit, so  *)
(* maxBlockSize and the dump thresholds are the source's byte constants    *)
(* scaled to that unit.  A JS Map or Set is a sequence without repeated    *)
(* keys, in insertion order.                                               *)
(***************************************************************************)
EXTENDS Integers, Sequences, FiniteSets, TLC

\* ---------------------------------------------------------------- bounds
MaxId == 2
MaxOps == 3
MaxDeltaStep == 2
MaxShard == 3
MaxProc == 2
MaxShardOps == 3
MaxCrashes == 1
MaxRows == 3
MaxTable == 2
MaxCall == 3
MaxDbOps == 3
MaxRecs == 2
MaxReaders == 2
MaxLoads == 3
MaxQueues == 3
MaxDumpId == 3

Ids == 1..MaxId
DeltaSteps == 1..MaxDeltaStep
Shards == 1..MaxShard
Procs == 1..MaxProc
Tables == 1..MaxTable
Calls == 1..MaxCall
DumpIds == 1..MaxDumpId

\* ------------------------------------------------- program constants
maxBlockSize == 1
minFileDumpSize == 2
maxFileDumpSize == 6
cacheSize == -1
compressed == 0
RowSize == 1
cacheShards == 1
shardCountStep == 4
maxFreeShardNumsLength == 2
autoShardSize == 2
maxAutoShardListLength == 1
monitoringTable == 0

\* ------------------------------------------------------------ JS Map/Set
\* F applied to the value of v: a local constant of the code, computed once.
With(v, F(_)) == CHOOSE r \in {F(x) : x \in {v}} : TRUE

RECURSIVE MapIdx(_, _, _)
MapIdx(m, k, i) ==
    IF i > Len(m) THEN 0
    ELSE IF m[i][1] = k THEN i ELSE MapIdx(m, k, i + 1)

MapHas(m, k) == MapIdx(m, k, 1) # 0

MapGet(m, k) == m[MapIdx(m, k, 1)][2]

MapSet(m, k, v) ==
    IF MapHas(m, k) THEN [m EXCEPT ![MapIdx(m, k, 1)] = <<k, v>>]
    ELSE Append(m, <<k, v>>)

RECURSIVE MapFromArr(_, _, _)
MapFromArr(arr, i, m) ==
    IF i > Len(arr) THEN m
    ELSE With(MapSet(m, arr[i][1], arr[i][2]),
              LAMBDA m1 : MapFromArr(arr, i + 1, m1))

NewMap(arr) == MapFromArr(arr, 1, <<>>)

SeqHas(s, x) == \E i \in 1..Len(s) : s[i] = x

SetAdd(s, x) == IF SeqHas(s, x) THEN s ELSE Append(s, x)

SetDel(s, x) == SelectSeq(s, LAMBDA y : y # x)

RECURSIVE SeqOfSet(_)
SeqOfSet(S) ==
    IF S = {} THEN <<>>
    ELSE LET x == CHOOSE y \in S : \A z \in S : y <= z
         IN <<x>> \o SeqOfSet(S \ {x})

MaxOf(S) == IF S = {} THEN 0 ELSE CHOOSE y \in S : \A z \in S : z <= y

\* ------------------------------------------------------------- the state
VARIABLES
    \* TableRowsFile fields
    blockIndex, blockList, currentBlockIndex, lastSavedBlockIndex,
    blockSetDefrag, blocksNotFinalized, loadedBlocks, newBlocks, deltas,
    destroyed, defragCandidates, fd, blockindex0Size, blocklist0Size,
    unloadTimer,
    \* the table directory
    blockindex0, blockindex1, blocklist0, blocklist1, blockFiles,
    \* the saveDelta call in progress
    pc, saveStep, lastSavedBI, finPos, defragIndex,
    \* history
    opCount, lastSet, wentWrong,
    \* each id a saved delta has set: "set", or "deleted" when its last
    \* record in the saved deltas is a deletion ("": never set)
    committed

memVars == <<blockIndex, blockList, currentBlockIndex, lastSavedBlockIndex,
             blockSetDefrag, blocksNotFinalized, loadedBlocks, newBlocks,
             deltas, destroyed, defragCandidates, fd, blockindex0Size,
             blocklist0Size, unloadTimer>>

diskVars == <<blockindex0, blockindex1, blocklist0, blocklist1, blockFiles>>

taskVars == <<pc, saveStep, lastSavedBI, finPos, defragIndex>>

histVars == <<opCount, lastSet, wentWrong, committed>>

rowVars == <<memVars, diskVars, taskVars, histVars>>

\* The state of the sharded table.
VARIABLES
    \* ShardedTable fields
    infoShard, shardList, shardLockList, openedShardTables,
    closableShardNames, cachedShardNames, cachedShardLock, tableLockMap,
    lock,
    \* the tables on disk: the 'shards' table and the row count of each shard
    shardListTable, shardTables,
    \* the calls in progress: position, operation, shards still to visit,
    \* shard in hand, shard _closeShards looks at
    pcS, kind, todo, curShard, closing,
    \* history
    shardOps, crashes

\* The numbers of the shards and the ids of their rows: the pool of free
\* numbers, the num of each shard's record (-1: no record), the isNew of
\* the _lockShard in progress, the autoIncrement of each shard's table
\* object and the ids each shard's table holds on disk.
VARIABLES
    freeShardNums, shardNums, isNew, autoIncrement, shardIds

idVars == <<freeShardNums, shardNums, isNew, autoIncrement, shardIds>>

\* The sticky error and the life cycle of the ShardedTable instance: its
\* fields fileError, opened and closed, the content of the file 'state' of
\* the table's directory, and for every caller the method and the message
\* of the last call that _checkErrors() ended.
VARIABLES
    fileError, opened, closed, stateFile, thrown

instVars == <<fileError, opened, closed, stateFile, thrown>>

\* Auto-sharding: the field autoShard ({step, list} with list records
\* {shard, count}; the shard auto_<i> is the name i), and for every insert in
\* progress the number of its rows for each shard it has not visited yet
\* (shardedRows).
VARIABLES
    autoShard, shardedRows

autoVars == <<autoShard, shardedRows>>

\* History: the shards for which the latest select that named them carried
\* query.persistent = true.
VARIABLES
    persistentAsked

\* History: for every caller and its latest select, how often each shard is
\* still to be queried: 1 at the call for every shard of shardList that its
\* query.shards stands for (every shard, for a query without shards), one
\* less for every table.select(query) on the shard.
VARIABLES
    owed

askVars == <<persistentAsked, owed>>

\* The hashes and indexes that create(query) has made: those of the meta
\* table and those of each shard's table, as pairs of kind and field, and
\* the query of every create in progress.
VARIABLES
    metaTable, shardMeta, createQuery

metaVars == <<metaTable, shardMeta, createQuery>>

shardVars == <<infoShard, shardList, shardLockList, openedShardTables,
               closableShardNames, cachedShardNames, cachedShardLock,
               tableLockMap, lock, shardListTable, shardTables, pcS, kind,
               todo, curShard, closing, shardOps, crashes, idVars, instVars,
               askVars, autoVars, metaVars>>

\* The state of the database (class JembaDb).  A table name is a number:
\* the names of Tables, the name monitoringTable, and Temp(t) for the name
\* t followed by '___temporary_truncating'.
VARIABLES
    \* this.table: "none" for a name the map does not hold, else the state
    \* of the instance ("new": set, not opened yet; "opened"; "closed")
    table,
    \* the database directory: the rows of each table directory, -1 for none
    dirs,
    \* this.tableLockMap (0: no entry) and the lock queues ever created
    dbTableLockMap, lockQueues,
    \* the calls: position, method, arguments, the functions entered and
    \* not yet left, the message thrown
    pcD, method, arg, frames, error,
    \* history
    dbOps,
    \* the monitoring: this.monitoringEnabled, this.monitoringId (0 before
    \* the first setMonitoring) and the rows of the monitoring table, each
    \* the id, the error and the timeEnd (1: a time) of a monRec
    monitoringEnabled, monitoringId, monRows

dbVars == <<table, dirs, dbTableLockMap, lockQueues, pcD, method, arg,
            frames, error, dbOps, monitoringEnabled, monitoringId, monRows>>

\* A file of the table directory as loadFile reads it: its bytes (fileBuf),
\* this.allowCorrupted, and what loadFile returned (loadResult); fileRecs
\* are the records whose write to the file was completed.
VARIABLES
    fileBuf, fileRecs, allowCorrupted, loadResult

fileVars == <<fileBuf, fileRecs, allowCorrupted, loadResult>>

\* The lock of one block rows file: the entry of fileLockMap for the file
\* (the number of a queue, 0: no entry), every LockQueue made for it, and
\* the calls that use it, loadBlock of callers 1..MaxReaders and the unlink
\* of saveDelta (caller 0): the position of each (pcF) and the queue it got
\* from getFileLock (queueOf).  fileExists: the file is in the directory;
\* blockRows: block.rows is set; loads counts the loadBlock calls.
VARIABLES
    fileLockMap, fileQueues, pcF, queueOf, fileExists, blockRows, loads

lockVars == <<fileLockMap, fileQueues, pcF, queueOf, fileExists, blockRows,
              loads>>

\* The table map of JembaDb with its instances: this.opened (dbOpened),
\* this.table (tableMap: the number of the instance of a table, 0: none),
\* every table instance made (insts), the table directories (tableDir),
\* the lock queues of create (tableLocks), the callers of open, create and
\* close (position pcT, method, table, the instance the call works on,
\* its error), and unlock (pcU) with the close() of closeAll for each
\* table (uClose, uInst).
VARIABLES
    dbOpened, tableMap, insts, tableDir, pcT, methodT, argT, instT, errT,
    tableLocks, pcU, uClose, uInst, mapOps

mapVars == <<dbOpened, tableMap, insts, tableDir, pcT, methodT, argT, instT,
             errT, tableLocks, pcU, uClose, uInst, mapOps>>

\* open() of one ShardedTable instance: the position of each caller of
\* open (pcO) with its query, the files type and state of the table
\* directory (dirO), the fields opening, opened, closed, metaTable and
\* shardListTable of the instance (instO; a table field is FALSE while it
\* is null), the error the catch of open has caught (causeO), the error
\* the last call of each caller threw (errO), and the calls made (callsO).
VARIABLES
    pcO, queryO, dirO, instO, causeO, errO, callsO

openVars == <<pcO, queryO, dirO, instO, causeO, errO, callsO>>

\* A method of monMethods: the position of each caller in the wrapper
\* (pcW), the outcome its original method has for the call (origW), the
\* outcome the caller gets (outW), the id of its monRec (monRecW),
\* this.monitoringEnabled (enabledW), the instance of the monitoring table
\* (monInstW), this.monitoringId (monitoringIdW), the rows of the
\* monitoring table (monRowsW), and the calls made (wrapOps).
VARIABLES
    pcW, origW, outW, monRecW, enabledW, monInstW, monitoringIdW, monRowsW,
    wrapOps

wrapVars == <<pcW, origW, outW, monRecW, enabledW, monInstW, monitoringIdW,
              monRowsW, wrapOps>>

\* What the row engine, the sharded table and the database leave alone.
notRows == <<shardVars, dbVars, fileVars, lockVars, mapVars, openVars,
            wrapVars>>

notShard == <<rowVars, dbVars, fileVars, lockVars, mapVars, openVars,
            wrapVars>>

notDb == <<rowVars, shardVars, fileVars, lockVars, mapVars, openVars,
            wrapVars>>

notFile == <<rowVars, shardVars, dbVars, lockVars, mapVars, openVars,
            wrapVars>>

notLock == <<rowVars, shardVars, dbVars, fileVars, mapVars, openVars,
            wrapVars>>

notMap == <<rowVars, shardVars, dbVars, fileVars, lockVars, openVars,
           wrapVars>>

notOpen == <<rowVars, shardVars, dbVars, fileVars, lockVars, mapVars,
            wrapVars>>

notWrap == <<rowVars, shardVars, dbVars, fileVars, lockVars, mapVars,
             openVars>>

\* --------------------------------------------------- the in-memory engine
\* The fields the synchronous row interface reads and writes, as one record.
This ==
    [blockIndex |-> blockIndex, blockList |-> blockList,
     currentBlockIndex |-> currentBlockIndex,
     blockSetDefrag |-> blockSetDefrag,
     blocksNotFinalized |-> blocksNotFinalized, newBlocks |-> newBlocks,
     deltas |-> deltas, thrown |-> FALSE]

EmptyDelta == [blockIndex |-> <<>>, blockList |-> <<>>, blockRows |-> <<>>,
               delFiles |-> <<>>]

NewBlock(n) ==
    [index |-> n, delCount |-> 0, addCount |-> 0, size |-> 0, rows |-> <<>>,
     loaded |-> TRUE, rowsLength |-> 0, final |-> FALSE]

hasRow(id) == blockIndex[id] # 0

getDelta(t, deltaStep) ==
    IF deltaStep \in DOMAIN t.deltas THEN t
    ELSE [t EXCEPT !.deltas = (deltaStep :> EmptyDelta) @@ @]

deleteRow(t, id, deltaStep) ==
    IF t.blockIndex[id] = 0 THEN t
    ELSE With(getDelta(t, deltaStep), LAMBDA t1 :
         With(t1.blockIndex[id], LAMBDA bi :
         With(IF bi \in DOMAIN t1.blockList
              THEN [t1 EXCEPT
                      !.blockList[bi].delCount = @ + 1,
                      !.blockSetDefrag = SetAdd(@, bi),
                      !.deltas[deltaStep].blockList = Append(@, <<bi, 1>>)]
              ELSE t1, LAMBDA t2 :
         [t2 EXCEPT !.blockIndex[id] = 0,
                    !.deltas[deltaStep].blockIndex = Append(@, <<id, 0>>)])))

createNewBlock(t) ==
    LET n == t.currentBlockIndex + 1
    IN [t EXCEPT !.currentBlockIndex = n,
                 !.blockList = (n :> NewBlock(n)) @@ @,
                 !.newBlocks = Append(@, n),
                 !.blocksNotFinalized = SetAdd(@, n)]

\* The result's currentBlockIndex is the index addToCurrentBlock returns;
\* thrown is its 'something has gone wrong' error.
addToCurrentBlock(t, id, row, deltaStep) ==
    With(getDelta(t, deltaStep), LAMBDA t0 :
    With(IF t0.currentBlockIndex \in DOMAIN t0.blockList THEN t0
         ELSE createNewBlock(t0), LAMBDA t1 :
    With(IF t1.blockList[t1.currentBlockIndex].size > maxBlockSize
         THEN createNewBlock(t1) ELSE t1, LAMBDA t2 :
    With(t2.currentBlockIndex, LAMBDA c :
    With(t2.blockList[c], LAMBDA b :
    With(MapSet(b.rows, id, row), LAMBDA rows :
    IF ~b.loaded THEN [t2 EXCEPT !.thrown = TRUE]
    ELSE [t2 EXCEPT
            !.blockList[c] = [b EXCEPT !.rows = rows,
                                       !.addCount = @ + 1,
                                       !.size = @ + RowSize,
                                       !.rowsLength = Len(rows)],
            !.deltas[deltaStep].blockList = Append(@, <<c, 1>>),
            !.deltas[deltaStep].blockRows = Append(@, <<c, id, row>>)]))))))

setRow(t, id, row, deltaStep) ==
    With(getDelta(t, deltaStep), LAMBDA t0 :
    With(deleteRow(t0, id, deltaStep), LAMBDA t1 :
    With(addToCurrentBlock(t1, id, row, deltaStep), LAMBDA t2 :
    IF t2.thrown THEN t2
    ELSE [t2 EXCEPT !.blockIndex[id] = t2.currentBlockIndex,
                    !.deltas[deltaStep].blockIndex =
                        Append(@, <<id, t2.currentBlockIndex>>)])))

\* Writes the record's fields back to the engine.
Becomes(t) ==
    /\ blockIndex' = t.blockIndex
    /\ blockList' = t.blockList
    /\ currentBlockIndex' = t.currentBlockIndex
    /\ blockSetDefrag' = t.blockSetDefrag
    /\ blocksNotFinalized' = t.blocksNotFinalized
    /\ newBlocks' = t.newBlocks
    /\ deltas' = t.deltas

\* ------------------------------------------------------------ block files
NoFile == [exists |-> FALSE, recs |-> <<>>]

\* A rows file: its framing flag, its records, and whether bytes follow the
\* closing bracket of a finalized body.
RowsFile(flag, recs) == [flag |-> flag, recs |-> recs, bad |-> FALSE]

blockRowsFilePath(index) == index

\* loadFile: the parsed array, or an error for a missing or unparsable file.
loadFile(files, name) ==
    IF name \notin DOMAIN files THEN [ok |-> FALSE, arr |-> <<>>]
    ELSE IF files[name].flag # 0 /\ files[name].bad
         THEN [ok |-> FALSE, arr |-> <<>>]
         ELSE [ok |-> TRUE, arr |-> files[name].recs]

\* fs.open(fileName, 'a') followed by a write of recs: openFd writes the
\* header '0[' into a file it creates; an append to a finalized file lands
\* behind its closing bracket.
appendRows(files, name, recs) ==
    IF name \notin DOMAIN files THEN (name :> RowsFile(0, recs)) @@ files
    ELSE IF files[name].flag = 0
         THEN [files EXCEPT ![name].recs = @ \o recs]
         ELSE [files EXCEPT ![name].bad = TRUE]

writeFinal(recs) == RowsFile(IF compressed = 0 THEN 1 ELSE 2, recs)

\* Yield: the saveDelta call, if any, is suspended at an await, so other
\* calls and timers may run.
Yield == {"idle", "defragLoad", "writeIndex", "writeList", "writeRows",
          "finalize", "dump", "delFiles"}

Saving == pc # "idle"

\* --------------------------------------------------------- row interface
SetRow(id, deltaStep) ==
    /\ pc \in Yield /\ ~destroyed
    /\ opCount < MaxOps
    /\ Saving => deltaStep # saveStep
    /\ \E t \in {setRow(This, id, opCount + 1, deltaStep)} :
          /\ Becomes(t)
          /\ wentWrong' = (wentWrong \/ t.thrown)
          /\ lastSet' = IF t.thrown THEN [lastSet EXCEPT ![id] = 0]
                        ELSE [lastSet EXCEPT ![id] = opCount + 1]
    /\ opCount' = opCount + 1
    /\ UNCHANGED <<lastSavedBlockIndex, loadedBlocks, destroyed,
                   defragCandidates, fd, blockindex0Size, blocklist0Size,
                   unloadTimer, diskVars, taskVars, committed>>
    /\ UNCHANGED notRows

DeleteRow(id, deltaStep) ==
    /\ pc \in Yield /\ ~destroyed
    /\ opCount < MaxOps
    /\ Saving => deltaStep # saveStep
    /\ hasRow(id)
    /\ \E t \in {deleteRow(This, id, deltaStep)} : Becomes(t)
    /\ lastSet' = [lastSet EXCEPT ![id] = 0]
    /\ opCount' = opCount + 1
    /\ UNCHANGED wentWrong
    /\ UNCHANGED <<lastSavedBlockIndex, loadedBlocks, destroyed,
                   defragCandidates, fd, blockindex0Size, blocklist0Size,
                   unloadTimer, diskVars, taskVars, committed>>
    /\ UNCHANGED notRows

cancelDelta(deltaStep) ==
    /\ pc \in Yield /\ ~destroyed
    /\ deltaStep \in DOMAIN deltas
    /\ Saving => deltaStep # saveStep
    /\ deltas' = [s \in DOMAIN deltas \ {deltaStep} |-> deltas[s]]
    /\ UNCHANGED <<blockIndex, blockList, currentBlockIndex,
                   lastSavedBlockIndex, blockSetDefrag, blocksNotFinalized,
                   loadedBlocks, newBlocks, destroyed, defragCandidates, fd,
                   blockindex0Size, blocklist0Size, unloadTimer, diskVars,
                   taskVars, histVars>>
    /\ UNCHANGED notRows

\* --------------------------------------------------------------- saveDelta
loadedBlocksCount ==
    IF cacheSize = 0 THEN 5 ELSE IF cacheSize <= 0 THEN 0 ELSE cacheSize

\* The test as it would be without the `!block.final` exclusion.
defragCandidateAnyBlock(index) ==
    /\ index \in DOMAIN blockList
    /\ \/ /\ blockList[index].delCount > 0
          /\ 5 * (blockList[index].addCount - blockList[index].delCount)
                 < 3 * blockList[index].rowsLength
       \/ 2 * blockList[index].size < maxBlockSize

\* The test saveDelta applies to a block of blockSetDefrag.
defragCandidate(index) ==
    /\ index \in DOMAIN blockList
    /\ blockList[index].final
    /\ \/ /\ blockList[index].delCount > 0
          /\ 5 * (blockList[index].addCount - blockList[index].delCount)
                 < 3 * blockList[index].rowsLength
       \/ 2 * blockList[index].size < maxBlockSize

SaveDeltaStart(deltaStep) ==
    /\ pc = "idle"
    /\ LET t == getDelta(This, deltaStep).deltas
           rows == t[deltaStep].blockRows
           select == defragCandidates = <<>> /\ blockSetDefrag # <<>>
       IN /\ deltas' = t
          /\ lastSavedBI' = IF Len(rows) > 0 THEN rows[Len(rows)][1] ELSE 0
          /\ defragCandidates' =
                 IF select THEN SelectSeq(blockSetDefrag, defragCandidate)
                 ELSE defragCandidates
          /\ blockSetDefrag' = IF select THEN <<>> ELSE blockSetDefrag
    /\ saveStep' = deltaStep
    /\ pc' = "defrag"
    /\ UNCHANGED <<blockIndex, blockList, currentBlockIndex,
                   lastSavedBlockIndex, blocksNotFinalized, loadedBlocks,
                   newBlocks, destroyed, fd, blockindex0Size, blocklist0Size,
                   unloadTimer, diskVars, finPos, defragIndex, histVars>>
    /\ UNCHANGED notRows

\* The loop body as it would be without the test
\* `this.blockIndex.get(id) === block.index`: every row of the block moves.
RECURSIVE moveRowsAll(_, _, _, _, _)
moveRowsAll(t, rows, i, index, deltaStep) ==
    IF i > Len(rows) \/ t.thrown THEN t
    ELSE With(addToCurrentBlock(t, rows[i][1], rows[i][2], deltaStep),
              LAMBDA t1 :
         With(IF t1.thrown THEN t1
              ELSE [t1 EXCEPT
                      !.blockIndex[rows[i][1]] = t1.currentBlockIndex,
                      !.deltas[deltaStep].blockIndex =
                          Append(@, <<rows[i][1], t1.currentBlockIndex>>)],
              LAMBDA t2 : moveRowsAll(t2, rows, i + 1, index, deltaStep)))

\* The body of the defragmentation loop for a block whose rows are loaded.
RECURSIVE moveRows(_, _, _, _, _)
moveRows(t, rows, i, index, deltaStep) ==
    IF i > Len(rows) \/ t.thrown THEN t
    ELSE IF t.blockIndex[rows[i][1]] # index
         THEN moveRows(t, rows, i + 1, index, deltaStep)
         ELSE With(addToCurrentBlock(t, rows[i][1], rows[i][2], deltaStep),
                   LAMBDA t1 :
              With(IF t1.thrown THEN t1
                   ELSE [t1 EXCEPT
                           !.blockIndex[rows[i][1]] = t1.currentBlockIndex,
                           !.deltas[deltaStep].blockIndex =
                               Append(@, <<rows[i][1], t1.currentBlockIndex>>)],
                   LAMBDA t2 : moveRows(t2, rows, i + 1, index, deltaStep)))

defragBlock(t, rows, index, deltaStep) ==
    With(moveRows(t, rows, 1, index, deltaStep), LAMBDA t1 :
    IF t1.thrown THEN t1
    ELSE [t1 EXCEPT
            !.blockList = [b \in DOMAIN @ \ {index} |-> @[b]],
            !.deltas[deltaStep].blockList = Append(@, <<index, 0>>),
            !.deltas[deltaStep].delFiles =
                Append(@, blockRowsFilePath(index))])

SaveDeltaDefrag ==
    /\ pc = "defrag"
    /\ IF destroyed \/ defragCandidates = <<>>
       THEN /\ pc' = "writeIndex"
            /\ UNCHANGED <<blockIndex, blockList, currentBlockIndex,
                           blockSetDefrag, blocksNotFinalized, newBlocks,
                           deltas, defragCandidates, defragIndex, wentWrong>>
       ELSE LET index == Head(defragCandidates)
            IN /\ defragCandidates' = Tail(defragCandidates)
               /\ defragIndex' = index
               /\ IF blockList[index].loaded
                  THEN \E t \in {defragBlock(This, blockList[index].rows,
                                             index, saveStep)} :
                          /\ Becomes(t)
                          /\ wentWrong' = (wentWrong \/ t.thrown)
                          /\ pc' = IF t.thrown THEN "failed" ELSE "defrag"
                  ELSE /\ pc' = "defragLoad"
                       /\ UNCHANGED <<blockIndex, blockList, currentBlockIndex,
                                      blockSetDefrag, blocksNotFinalized,
                                      newBlocks, deltas, wentWrong>>
    /\ UNCHANGED <<lastSavedBlockIndex, loadedBlocks, destroyed, fd,
                   blockindex0Size, blocklist0Size, unloadTimer, diskVars,
                   saveStep, lastSavedBI, finPos, opCount, lastSet,
                   committed>>
    /\ UNCHANGED notRows

\* loadBlock of the picked block, then the rest of the loop body.
SaveDeltaDefragLoad ==
    /\ pc = "defragLoad"
    /\ \E index \in {defragIndex} :
       \E file \in {loadFile(blockFiles, blockRowsFilePath(index))} :
          IF ~file.ok
          THEN /\ pc' = "failed"
               /\ UNCHANGED <<blockIndex, blockList, currentBlockIndex,
                              blockSetDefrag, blocksNotFinalized, newBlocks,
                              deltas, loadedBlocks, wentWrong>>
          ELSE \E rows \in {IF ~blockList[index].loaded
                              THEN NewMap(file.arr)
                              ELSE blockList[index].rows} :
               \E t \in {defragBlock(This, rows, index, saveStep)} :
                  /\ Becomes(t)
                  /\ loadedBlocks' = IF ~blockList[index].loaded
                                     THEN Append(loadedBlocks, index)
                                     ELSE loadedBlocks
                  /\ wentWrong' = (wentWrong \/ t.thrown)
                  /\ pc' = IF t.thrown THEN "failed" ELSE "defrag"
    /\ UNCHANGED <<lastSavedBlockIndex, destroyed, defragCandidates, fd,
                   blockindex0Size, blocklist0Size, unloadTimer, diskVars,
                   saveStep, lastSavedBI, finPos, defragIndex, opCount,
                   lastSet, committed>>
    /\ UNCHANGED notRows

\* The blockIndex write as it would be with the unlinks of delta.delFiles
\* placed right after the defragmentation loop, before the journal writes.
SaveDeltaUnlinksFirst ==
    /\ pc = "writeIndex"
    /\ blockFiles' = [f \in DOMAIN blockFiles \
                          {deltas[saveStep].delFiles[i] :
                               i \in 1..Len(deltas[saveStep].delFiles)}
                      |-> blockFiles[f]]
    /\ blockindex1' = [exists |-> TRUE,
                       recs |-> blockindex1.recs \o deltas[saveStep].blockIndex]
    /\ fd' = [fd EXCEPT !.blockIndex = TRUE]
    /\ pc' = "writeList"
    /\ UNCHANGED <<blockIndex, blockList, currentBlockIndex,
                   lastSavedBlockIndex, blockSetDefrag, blocksNotFinalized,
                   loadedBlocks, newBlocks, deltas, destroyed,
                   defragCandidates, blockindex0Size, blocklist0Size,
                   unloadTimer, blockindex0, blocklist0, blocklist1,
                   saveStep, lastSavedBI, finPos, defragIndex, histVars>>
    /\ UNCHANGED notRows

\* openFd('blockIndex') and the write of the delta's blockIndex records.
SaveDeltaBlockIndex ==
    /\ pc = "writeIndex"
    /\ blockindex1' = [exists |-> TRUE,
                       recs |-> blockindex1.recs \o deltas[saveStep].blockIndex]
    /\ fd' = [fd EXCEPT !.blockIndex = TRUE]
    /\ pc' = "writeList"
    /\ UNCHANGED <<blockIndex, blockList, currentBlockIndex,
                   lastSavedBlockIndex, blockSetDefrag, blocksNotFinalized,
                   loadedBlocks, newBlocks, deltas, destroyed,
                   defragCandidates, blockindex0Size, blocklist0Size,
                   unloadTimer, blockindex0, blocklist0, blocklist1,
                   blockFiles, saveStep, lastSavedBI, finPos, defragIndex,
                   histVars>>
    /\ UNCHANGED notRows

\* JSON.stringify(block): the block without its rows.
blockRec(b) ==
    [index |-> b.index, delCount |-> b.delCount, addCount |-> b.addCount,
     size |-> b.size, rowsLength |-> b.rowsLength, final |-> b.final,
     deleted |-> FALSE]

deletedRec(index) ==
    [index |-> index, delCount |-> 0, addCount |-> 0, size |-> 0,
     rowsLength |-> 0, final |-> FALSE, deleted |-> TRUE]

\* The records saveDelta writes for delta.blockList.
RECURSIVE blockListBuf(_, _, _, _)
blockListBuf(recs, i, lastSaved, buf) ==
    IF i > Len(recs) THEN buf
    ELSE LET index == recs[i][1]
         IN IF recs[i][2] = 1
            THEN IF lastSaved # index
                 THEN blockListBuf(recs, i + 1, index,
                          IF index \in DOMAIN blockList
                          THEN Append(buf, blockRec(blockList[index]))
                          ELSE buf)
                 ELSE blockListBuf(recs, i + 1, lastSaved, buf)
            ELSE blockListBuf(recs, i + 1, lastSaved,
                              Append(buf, deletedRec(index)))

SaveDeltaBlockList ==
    /\ pc = "writeList"
    /\ blocklist1' = [exists |-> TRUE,
                      recs |-> blocklist1.recs \o
                          blockListBuf(deltas[saveStep].blockList, 1, 0, <<>>)]
    /\ fd' = [fd EXCEPT !.blockList = TRUE]
    /\ pc' = "writeRows"
    /\ UNCHANGED <<blockIndex, blockList, currentBlockIndex,
                   lastSavedBlockIndex, blockSetDefrag, blocksNotFinalized,
                   loadedBlocks, newBlocks, deltas, destroyed,
                   defragCandidates, blockindex0Size, blocklist0Size,
                   unloadTimer, blockindex0, blockindex1, blocklist0,
                   blockFiles, saveStep, lastSavedBI, finPos, defragIndex,
                   histVars>>
    /\ UNCHANGED notRows

\* The rows saveDelta appends, file by file, for delta.blockRows.
RECURSIVE writeBlockRows(_, _, _)
writeBlockRows(files, recs, i) ==
    IF i > Len(recs) THEN files
    ELSE With(appendRows(files, blockRowsFilePath(recs[i][1]),
                         <<<<recs[i][2], recs[i][3]>>>>),
              LAMBDA files1 : writeBlockRows(files1, recs, i + 1))

\* The iterations of finalizeBlocks that need no file: from position pos of
\* blocksNotFinalized up to the first block it has to rewrite.
RECURSIVE finalizeSkip(_, _, _, _)
finalizeSkip(notFin, defrag, pos, lastSaved) ==
    IF destroyed \/ pos > Len(notFin)
    THEN [notFin |-> notFin, defrag |-> defrag, pos |-> pos, done |-> TRUE]
    ELSE IF notFin[pos] >= lastSaved
         THEN finalizeSkip(notFin, defrag, pos + 1, lastSaved)
         ELSE IF notFin[pos] \notin DOMAIN blockList
              THEN With(<<SetDel(notFin, notFin[pos]),
                          SetAdd(defrag, notFin[pos])>>,
                        LAMBDA s : finalizeSkip(s[1], s[2], pos, lastSaved))
              ELSE [notFin |-> notFin, defrag |-> defrag, pos |-> pos,
                    done |-> FALSE]

\* What follows a finalizeBlocks iteration: the next one, or the return to
\* saveDelta, which calls unloadBlocksIfNeeded() and goes on to dumpMaps.
FinalizeGoesOn(f) ==
    /\ blocksNotFinalized' = f.notFin
    /\ blockSetDefrag' = f.defrag
    /\ finPos' = f.pos
    /\ pc' = IF f.done THEN "dump" ELSE "finalize"
    /\ unloadTimer' = (unloadTimer \/ f.done)

SaveDeltaBlockRows ==
    /\ pc = "writeRows"
    /\ LET recs == deltas[saveStep].blockRows
           lastSaved == IF lastSavedBI # 0 THEN lastSavedBI
                        ELSE lastSavedBlockIndex
       IN /\ blockFiles' = writeBlockRows(blockFiles, recs, 1)
          /\ fd' = IF Len(recs) = 0 THEN fd
                   ELSE [fd EXCEPT !.blockRows = TRUE,
                                   !.blockRowsIndex = recs[Len(recs)][1]]
          /\ lastSavedBlockIndex' = lastSaved
          /\ \E f \in {finalizeSkip(blocksNotFinalized, blockSetDefrag,
                                     1, lastSaved)} : FinalizeGoesOn(f)
    /\ UNCHANGED <<blockIndex, blockList, currentBlockIndex, loadedBlocks,
                   newBlocks, deltas, destroyed, defragCandidates,
                   blockindex0Size, blocklist0Size, blockindex0, blockindex1,
                   blocklist0, blocklist1, saveStep, lastSavedBI, defragIndex,
                   histVars>>
    /\ UNCHANGED notRows

\* One iteration of finalizeBlocks that rewrites a block file.
finalizeBlocks ==
    /\ pc = "finalize"
    /\ LET index == blocksNotFinalized[finPos]
           blockPath == blockRowsFilePath(index)
           file == loadFile(blockFiles, blockPath)
           rows == NewMap(file.arr)
           block == [blockList[index] EXCEPT !.size = Len(rows) * RowSize,
                                             !.rowsLength = Len(rows),
                                             !.final = TRUE]
       IN IF blockList[index].final \/ ~file.ok
          THEN /\ pc' = "failed"
               /\ UNCHANGED <<blockList, blockSetDefrag, blocksNotFinalized,
                              unloadTimer, blocklist1, blockFiles, finPos>>
          ELSE /\ blockFiles' = [blockFiles EXCEPT ![blockPath] = writeFinal(rows)]
               /\ blockList' = [blockList EXCEPT ![index] = block]
               /\ IF ~fd.blockList
                  THEN /\ pc' = "failed"
                       /\ UNCHANGED <<blockSetDefrag, blocksNotFinalized,
                                      unloadTimer, blocklist1, finPos>>
                  ELSE /\ blocklist1' = [blocklist1 EXCEPT
                                           !.recs = Append(@, blockRec(block))]
                       /\ \E f \in {finalizeSkip(
                                       SetDel(blocksNotFinalized, index),
                                       SetAdd(blockSetDefrag, index),
                                       finPos, lastSavedBlockIndex)} :
                              FinalizeGoesOn(f)
    /\ UNCHANGED <<blockIndex, currentBlockIndex, lastSavedBlockIndex,
                   loadedBlocks, newBlocks, deltas, destroyed,
                   defragCandidates, fd, blockindex0Size, blocklist0Size,
                   blockindex0, blockindex1, blocklist0, saveStep,
                   lastSavedBI, defragIndex, histVars>>
    /\ UNCHANGED notRows

\* Array.from(this.blockIndex) and Array.from(this.blockList.values()).
blockIndexArr == [i \in 1..Len(SeqOfSet({id \in DOMAIN blockIndex :
                                              blockIndex[id] # 0})) |->
                     LET id == SeqOfSet({x \in DOMAIN blockIndex :
                                             blockIndex[x] # 0})[i]
                     IN <<id, blockIndex[id]>>]

blockListArr == [i \in 1..Len(SeqOfSet(DOMAIN blockList)) |->
                    blockRec(blockList[SeqOfSet(DOMAIN blockList)[i]])]

dumpNeeded(size1, size0) ==
    (size1 > minFileDumpSize /\ size1 > size0) \/ size1 > maxFileDumpSize

\* committed once the records recs of a delta are saved.
RECURSIVE Saved(_, _, _)
Saved(recs, i, c) ==
    IF i > Len(recs) THEN c
    ELSE With([c EXCEPT ![recs[i][1]] = IF recs[i][2] > 0 THEN "set"
                                        ELSE IF @ = "" THEN "" ELSE "deleted"],
              LAMBDA c1 : Saved(recs, i + 1, c1))

\* dumpMaps, then the unlinks of delta.delFiles and deltas.delete.
SaveDeltaEnds ==
    IF deltas[saveStep].delFiles # <<>>
    THEN pc' = "delFiles" /\ deltas' = deltas /\ committed' = committed
    ELSE /\ pc' = "done"
         /\ deltas' = [s \in DOMAIN deltas \ {saveStep} |-> deltas[s]]
         /\ committed' = Saved(deltas[saveStep].blockIndex, 1, committed)

dumpMaps ==
    /\ pc = "dump"
    /\ IF ~fd.blockIndex \/ ~fd.blockList
       THEN /\ pc' = "failed"
            /\ UNCHANGED <<deltas, fd, blockindex0Size, blocklist0Size,
                           blockindex0, blockindex1, blocklist0, blocklist1,
                           committed>>
       ELSE /\ IF dumpNeeded(Len(blockindex1.recs), blockindex0Size)
               THEN /\ blockindex0' = [exists |-> TRUE, recs |-> blockIndexArr]
                    /\ blockindex1' = NoFile
                    /\ blockindex0Size' = Len(blockIndexArr)
               ELSE UNCHANGED <<blockindex0, blockindex1, blockindex0Size>>
            /\ IF dumpNeeded(Len(blocklist1.recs), blocklist0Size)
               THEN /\ blocklist0' = [exists |-> TRUE, recs |-> blockListArr]
                    /\ blocklist1' = NoFile
                    /\ blocklist0Size' = Len(blockListArr)
               ELSE UNCHANGED <<blocklist0, blocklist1, blocklist0Size>>
            /\ fd' = [fd EXCEPT
                        !.blockIndex = ~dumpNeeded(Len(blockindex1.recs),
                                                   blockindex0Size),
                        !.blockList = ~dumpNeeded(Len(blocklist1.recs),
                                                  blocklist0Size)]
            /\ SaveDeltaEnds
    /\ UNCHANGED <<blockIndex, blockList, currentBlockIndex,
                   lastSavedBlockIndex, blockSetDefrag, blocksNotFinalized,
                   loadedBlocks, newBlocks, destroyed, defragCandidates,
                   unloadTimer, blockFiles, saveStep, lastSavedBI, finPos,
                   defragIndex, opCount, lastSet, wentWrong>>
    /\ UNCHANGED notRows

SaveDeltaDelFiles ==
    /\ pc = "delFiles"
    /\ blockFiles' = [f \in DOMAIN blockFiles \
                          {deltas[saveStep].delFiles[i] :
                               i \in 1..Len(deltas[saveStep].delFiles)}
                      |-> blockFiles[f]]
    /\ deltas' = [s \in DOMAIN deltas \ {saveStep} |-> deltas[s]]
    /\ pc' = "done"
    /\ committed' = Saved(deltas[saveStep].blockIndex, 1, committed)
    /\ UNCHANGED <<blockIndex, blockList, currentBlockIndex,
                   lastSavedBlockIndex, blockSetDefrag, blocksNotFinalized,
                   loadedBlocks, newBlocks, destroyed, defragCandidates, fd,
                   blockindex0Size, blocklist0Size, unloadTimer, blockindex0,
                   blockindex1, blocklist0, blocklist1, saveStep, lastSavedBI,
                   finPos, defragIndex, opCount, lastSet, wentWrong>>
    /\ UNCHANGED notRows

\* saveDelta returns to its caller.
SaveDeltaReturns ==
    /\ pc = "done"
    /\ pc' = "idle"
    /\ saveStep' = 0 /\ lastSavedBI' = 0 /\ finPos' = 0 /\ defragIndex' = 0
    /\ UNCHANGED <<memVars, diskVars, histVars>>
    /\ UNCHANGED notRows

\* SaveDeltaFails as it would be with deltas.delete(deltaStep) in a finally
\* clause of saveDelta.
SaveDeltaFailsFinally ==
    /\ pc \in Yield \ {"idle"}
    /\ pc' = "failed"
    /\ deltas' = [s \in DOMAIN deltas \ {saveStep} |-> deltas[s]]
    /\ UNCHANGED <<blockIndex, blockList, currentBlockIndex,
                   lastSavedBlockIndex, blockSetDefrag, blocksNotFinalized,
                   loadedBlocks, newBlocks, destroyed, defragCandidates, fd,
                   blockindex0Size, blocklist0Size, unloadTimer, diskVars,
                   saveStep, lastSavedBI, finPos, defragIndex, histVars>>
    /\ UNCHANGED notRows

\* A file operation of saveDelta fails: the call throws at that await.
SaveDeltaFails ==
    /\ pc \in Yield \ {"idle"}
    /\ pc' = "failed"
    /\ UNCHANGED <<memVars, diskVars, saveStep, lastSavedBI, finPos,
                   defragIndex, histVars>>
    /\ UNCHANGED notRows

\* ------------------------------------------------------- cache and reads
\* The eviction loop of unloadBlocksIfNeeded(true).
RECURSIVE unloadLoop(_, _)
unloadLoop(loaded, list) ==
    IF Len(loaded) <= loadedBlocksCount
    THEN [loadedBlocks |-> loaded, blockList |-> list]
    ELSE LET index == Head(loaded)
         IN IF index >= lastSavedBlockIndex \/ index \notin DOMAIN list
            THEN unloadLoop(Tail(loaded), list)
            ELSE With([list EXCEPT ![index].rows = <<>>,
                                   ![index].loaded = FALSE],
                      LAMBDA list1 : unloadLoop(Tail(loaded), list1))

\* The eviction pass as it would be with its two comparisons against
\* lastSavedBlockIndex off by one (<= for <, > for >=).
RECURSIVE unloadLoopInclusive(_, _)
unloadLoopInclusive(loaded, list) ==
    IF Len(loaded) <= loadedBlocksCount
    THEN [loadedBlocks |-> loaded, blockList |-> list]
    ELSE LET index == Head(loaded)
         IN IF index > lastSavedBlockIndex \/ index \notin DOMAIN list
            THEN unloadLoopInclusive(Tail(loaded), list)
            ELSE With([list EXCEPT ![index].rows = <<>>,
                                   ![index].loaded = FALSE],
                      LAMBDA list1 : unloadLoopInclusive(Tail(loaded), list1))

unloadBlocksInclusive ==
    /\ pc \in Yield
    /\ unloadTimer
    /\ unloadTimer' = FALSE
    /\ newBlocks' = SelectSeq(newBlocks, LAMBDA i : i > lastSavedBlockIndex)
    /\ \E r \in {unloadLoopInclusive(
                    loadedBlocks \o
                        SelectSeq(newBlocks,
                                  LAMBDA i : i <= lastSavedBlockIndex),
                    blockList)} :
          /\ loadedBlocks' = r.loadedBlocks
          /\ blockList' = r.blockList
    /\ UNCHANGED <<blockIndex, currentBlockIndex, lastSavedBlockIndex,
                   blockSetDefrag, blocksNotFinalized, deltas, destroyed,
                   defragCandidates, fd, blockindex0Size, blocklist0Size,
                   diskVars, taskVars, histVars>>
    /\ UNCHANGED notRows

\* The timer set by unloadBlocksIfNeeded() fires.
unloadBlocksIfNeeded ==
    /\ pc \in Yield
    /\ unloadTimer
    /\ unloadTimer' = FALSE
    /\ newBlocks' = SelectSeq(newBlocks, LAMBDA i : i >= lastSavedBlockIndex)
    /\ \E r \in {unloadLoop(
                    loadedBlocks \o
                        SelectSeq(newBlocks,
                                  LAMBDA i : i < lastSavedBlockIndex),
                    blockList)} :
          /\ loadedBlocks' = r.loadedBlocks
          /\ blockList' = r.blockList
    /\ UNCHANGED <<blockIndex, currentBlockIndex, lastSavedBlockIndex,
                   blockSetDefrag, blocksNotFinalized, deltas, destroyed,
                   defragCandidates, fd, blockindex0Size, blocklist0Size,
                   diskVars, taskVars, histVars>>
    /\ UNCHANGED notRows

\* What getRow(id) returns: 0 for undefined, -1 when loadBlock throws.
getRowResult(id) ==
    IF blockIndex[id] \notin DOMAIN blockList THEN 0
    ELSE LET block == blockList[blockIndex[id]]
             file == loadFile(blockFiles, blockRowsFilePath(block.index))
             rows == IF block.loaded THEN block.rows ELSE NewMap(file.arr)
         IN IF ~block.loaded /\ ~file.ok THEN -1
            ELSE IF MapHas(rows, id) THEN MapGet(rows, id) ELSE 0

\* getRow(id) of a row whose block is not in memory: loadBlock pages it in.
getRow(id) ==
    /\ pc \in Yield /\ ~destroyed
    /\ blockIndex[id] \in DOMAIN blockList
    /\ ~blockList[blockIndex[id]].loaded
    /\ LET index == blockIndex[id]
           file == loadFile(blockFiles, blockRowsFilePath(index))
       IN /\ file.ok
          /\ blockList' = [blockList EXCEPT ![index].rows = NewMap(file.arr),
                                            ![index].loaded = TRUE]
          /\ loadedBlocks' = Append(loadedBlocks, index)
    /\ unloadTimer' = TRUE
    /\ UNCHANGED <<blockIndex, currentBlockIndex, lastSavedBlockIndex,
                   blockSetDefrag, blocksNotFinalized, newBlocks, deltas,
                   destroyed, defragCandidates, fd, blockindex0Size,
                   blocklist0Size, diskVars, taskVars, histVars>>
    /\ UNCHANGED notRows

\* ------------------------------------------------------ destroy and load
destroy ==
    /\ pc \in Yield /\ ~destroyed
    /\ fd' = [fd EXCEPT !.blockIndex = FALSE, !.blockList = FALSE,
                        !.blockRows = FALSE]
    /\ unloadTimer' = FALSE
    /\ destroyed' = TRUE
    /\ UNCHANGED <<blockIndex, blockList, currentBlockIndex,
                   lastSavedBlockIndex, blockSetDefrag, blocksNotFinalized,
                   loadedBlocks, newBlocks, deltas, defragCandidates,
                   blockindex0Size, blocklist0Size, diskVars, taskVars,
                   histVars>>
    /\ UNCHANGED notRows

\* load's loadBlockIndex over blockindex.0 and then blockindex.1.
RECURSIVE loadBlockIndex(_, _, _)
loadBlockIndex(recs, i, index) ==
    IF i > Len(recs) THEN index
    ELSE loadBlockIndex(recs, i + 1, [index EXCEPT ![recs[i][1]] = recs[i][2]])

\* load's loadBlockList over blocklist.0 and then blocklist.1.
RECURSIVE loadBlockList(_, _, _)
loadBlockList(recs, i, r) ==
    IF i > Len(recs) THEN r
    ELSE LET rec == recs[i]
         IN IF rec.deleted
            THEN With([r EXCEPT !.list = [b \in DOMAIN @ \ {rec.index} |-> @[b]]],
                      LAMBDA r1 : loadBlockList(recs, i + 1, r1))
            ELSE With(
                     [list |-> (rec.index :>
                                  [index |-> rec.index,
                                   delCount |-> rec.delCount,
                                   addCount |-> rec.addCount,
                                   size |-> rec.size, rows |-> <<>>,
                                   loaded |-> FALSE,
                                   rowsLength |-> rec.rowsLength,
                                   final |-> rec.final]) @@ r.list,
                      cur |-> IF rec.index > r.cur THEN rec.index ELSE r.cur],
                     LAMBDA r1 : loadBlockList(recs, i + 1, r1))

\* The autoIncrement load() returns: id + 1 for the largest id among the
\* keys of blockindex.0 and the records of blockindex.1 with an index > 0.
autoIncrementSeed ==
    MaxOf({blockindex0.recs[i][1] + 1 : i \in 1..Len(blockindex0.recs)}
          \cup {blockindex1.recs[i][1] + 1 :
                   i \in {j \in 1..Len(blockindex1.recs) :
                            blockindex1.recs[j][2] > 0}})

\* load() on a new instance over the files of the table directory.
load ==
    With(loadBlockIndex(blockindex0.recs \o blockindex1.recs, 1,
                        [id \in Ids |-> 0]), LAMBDA index :
    With(loadBlockList(blocklist0.recs \o blocklist1.recs, 1,
                       [list |-> <<>>, cur |-> 0]), LAMBDA lst :
    With(lst.cur, LAMBDA cur :
    With(loadFile(blockFiles, blockRowsFilePath(cur)), LAMBDA file :
    With(cur \in DOMAIN lst.list, LAMBDA hasCur :
       [ok |-> hasCur => file.ok,
        blockIndex |-> index,
        blockList |-> IF hasCur /\ file.ok
                      THEN [lst.list EXCEPT ![cur].rows = NewMap(file.arr),
                                            ![cur].loaded = TRUE]
                      ELSE lst.list,
        currentBlockIndex |-> cur,
        newBlocks |-> IF hasCur THEN <<cur>> ELSE <<>>,
        blocksNotFinalized |->
            SelectSeq(SeqOfSet(DOMAIN lst.list),
                      LAMBDA b : ~lst.list[b].final),
        blockSetDefrag |-> SeqOfSet(DOMAIN lst.list)])))))

NoFd == [blockIndex |-> FALSE, blockList |-> FALSE, blockRows |-> FALSE,
         blockRowsIndex |-> 0]

\* The table is opened again: a new TableRowsFile and its load().
Reopen ==
    /\ pc = "idle" /\ destroyed
    /\ \E l \in {load} :
       /\ l.ok
       /\ blockIndex' = l.blockIndex
       /\ blockList' = l.blockList
       /\ currentBlockIndex' = l.currentBlockIndex
       /\ lastSavedBlockIndex' = l.currentBlockIndex
       /\ blockSetDefrag' = l.blockSetDefrag
       /\ blocksNotFinalized' = l.blocksNotFinalized
       /\ loadedBlocks' = <<>>
       /\ newBlocks' = l.newBlocks
       /\ deltas' = <<>>
       /\ destroyed' = FALSE
       /\ defragCandidates' = <<>>
       /\ fd' = NoFd
       /\ blockindex0Size' = Len(blockindex0.recs)
       /\ blocklist0Size' = Len(blocklist0.recs)
       /\ unloadTimer' = FALSE
       /\ lastSet' = [id \in Ids |->
                        IF l.blockIndex[id] \in DOMAIN l.blockList
                        THEN LET f == loadFile(blockFiles, l.blockIndex[id])
                                 m == NewMap(f.arr)
                             IN IF f.ok /\ MapHas(m, id) THEN MapGet(m, id) ELSE 0
                        ELSE 0]
    /\ UNCHANGED <<diskVars, taskVars, opCount, wentWrong, committed>>
    /\ UNCHANGED notRows

\* The process stops while saveDelta is suspended at one of its file
\* operations; the table is then opened by a new process: a new
\* TableRowsFile and its load() over the files the old process left.
CrashLoad ==
    /\ pc \in Yield \ {"idle"}
    /\ \E l \in {load} :
       IF ~l.ok
       THEN /\ pc' = "failed"
            /\ UNCHANGED <<memVars, saveStep, lastSavedBI, finPos,
                           defragIndex, lastSet>>
       ELSE /\ blockIndex' = l.blockIndex
            /\ blockList' = l.blockList
            /\ currentBlockIndex' = l.currentBlockIndex
            /\ lastSavedBlockIndex' = l.currentBlockIndex
            /\ blockSetDefrag' = l.blockSetDefrag
            /\ blocksNotFinalized' = l.blocksNotFinalized
            /\ loadedBlocks' = <<>>
            /\ newBlocks' = l.newBlocks
            /\ deltas' = <<>>
            /\ destroyed' = FALSE
            /\ defragCandidates' = <<>>
            /\ fd' = NoFd
            /\ blockindex0Size' = Len(blockindex0.recs)
            /\ blocklist0Size' = Len(blocklist0.recs)
            /\ unloadTimer' = FALSE
            /\ pc' = "idle"
            /\ saveStep' = 0 /\ lastSavedBI' = 0 /\ finPos' = 0
            /\ defragIndex' = 0
            /\ lastSet' = [id \in Ids |->
                             IF l.blockIndex[id] \in DOMAIN l.blockList
                             THEN LET file == loadFile(blockFiles,
                                                       l.blockIndex[id])
                                      m == NewMap(file.arr)
                                  IN IF file.ok /\ MapHas(m, id)
                                     THEN MapGet(m, id) ELSE 0
                             ELSE 0]
    /\ UNCHANGED <<diskVars, opCount, wentWrong, committed>>
    /\ UNCHANGED notRows

\* The block loadCorrupted registers for the file <index>.jem.
CorruptedBlock(index) ==
    [index |-> index, delCount |-> 0, addCount |-> 0, size |-> 0,
     rows |-> <<>>, loaded |-> FALSE, rowsLength |-> 0, final |-> FALSE]

\* The table is opened for repair: a new TableRowsFile and its
\* loadCorrupted(), which reads the blockindex files and registers every
\* block file of the directory.  The other fields are the constructor's.
ReopenCorrupted ==
    /\ pc = "idle" /\ destroyed
    /\ \E index \in {loadBlockIndex(blockindex0.recs \o blockindex1.recs, 1,
                                      [id \in Ids |-> 0])} :
       \E list \in {[b \in DOMAIN blockFiles |-> CorruptedBlock(b)]} :
          /\ blockIndex' = index
          /\ blockList' = list
          /\ lastSet' = [id \in Ids |->
                           IF index[id] \in DOMAIN list
                           THEN LET file == loadFile(blockFiles, index[id])
                                    m == NewMap(file.arr)
                                IN IF file.ok /\ MapHas(m, id)
                                   THEN MapGet(m, id) ELSE 0
                           ELSE 0]
    /\ currentBlockIndex' = 0
    /\ lastSavedBlockIndex' = 0
    /\ blockSetDefrag' = <<>>
    /\ blocksNotFinalized' = <<>>
    /\ loadedBlocks' = <<>>
    /\ newBlocks' = <<>>
    /\ deltas' = <<>>
    /\ destroyed' = FALSE
    /\ defragCandidates' = <<>>
    /\ fd' = NoFd
    /\ blockindex0Size' = 0
    /\ blocklist0Size' = 0
    /\ unloadTimer' = FALSE
    /\ UNCHANGED <<diskVars, taskVars, opCount, wentWrong, committed>>
    /\ UNCHANGED notRows

\* ----------------------------------------- the row engine as a whole
RowsInit ==
    /\ blockIndex = [id \in Ids |-> 0]
    /\ blockList = <<>>
    /\ currentBlockIndex = 0
    /\ lastSavedBlockIndex = 0
    /\ blockSetDefrag = <<>>
    /\ blocksNotFinalized = <<>>
    /\ loadedBlocks = <<>>
    /\ newBlocks = <<>>
    /\ deltas = <<>>
    /\ destroyed = FALSE
    /\ defragCandidates = <<>>
    /\ fd = NoFd
    /\ blockindex0Size = 0
    /\ blocklist0Size = 0
    /\ unloadTimer = FALSE
    /\ blockindex0 = NoFile
    /\ blockindex1 = NoFile
    /\ blocklist0 = NoFile
    /\ blocklist1 = NoFile
    /\ blockFiles = <<>>
    /\ pc = "idle"
    /\ saveStep = 0
    /\ lastSavedBI = 0
    /\ finPos = 0
    /\ defragIndex = 0
    /\ opCount = 0
    /\ lastSet = [id \in Ids |-> 0]
    /\ wentWrong = FALSE
    /\ committed = [id \in Ids |-> ""]

\* The row engine after setRow(1, 1, 1) on the new table: the fields are
\* those setRow leaves, and the count of the operations starts behind it.
RowsInitSetRow ==
    /\ \E t \in {setRow([blockIndex |-> [id \in Ids |-> 0],
                          blockList |-> <<>>, currentBlockIndex |-> 0,
                          blockSetDefrag |-> <<>>,
                          blocksNotFinalized |-> <<>>, newBlocks |-> <<>>,
                          deltas |-> <<>>, thrown |-> FALSE], 1, 1, 1)} :
          /\ blockIndex = t.blockIndex
          /\ blockList = t.blockList
          /\ currentBlockIndex = t.currentBlockIndex
          /\ blockSetDefrag = t.blockSetDefrag
          /\ blocksNotFinalized = t.blocksNotFinalized
          /\ newBlocks = t.newBlocks
          /\ deltas = t.deltas
    /\ lastSavedBlockIndex = 0
    /\ loadedBlocks = <<>>
    /\ destroyed = FALSE
    /\ defragCandidates = <<>>
    /\ fd = NoFd
    /\ blockindex0Size = 0
    /\ blocklist0Size = 0
    /\ unloadTimer = FALSE
    /\ blockindex0 = NoFile
    /\ blockindex1 = NoFile
    /\ blocklist0 = NoFile
    /\ blocklist1 = NoFile
    /\ blockFiles = <<>>
    /\ pc = "idle"
    /\ saveStep = 0
    /\ lastSavedBI = 0
    /\ finPos = 0
    /\ defragIndex = 0
    /\ opCount = 0
    /\ lastSet = [id \in Ids |-> IF id = 1 THEN 1 ELSE 0]
    /\ wentWrong = FALSE
    /\ committed = [id \in Ids |-> ""]

\* The row engine over the ids of DumpIds after setRow(1), setRow(2),
\* setRow(3), setRow(1), setRow(3) in deltaStep 1 on the new table: blocks 1
\* and 2 each hold one row that is current and one that was set again later,
\* block 3 is the current block.
RowsInitFragmented ==
    /\ \E t0 \in {[blockIndex |-> [id \in DumpIds |-> 0],
                     blockList |-> <<>>, currentBlockIndex |-> 0,
                     blockSetDefrag |-> <<>>,
                     blocksNotFinalized |-> <<>>, newBlocks |-> <<>>,
                     deltas |-> <<>>, thrown |-> FALSE]} :
       \E t1 \in {setRow(t0, 1, 1, 1)} :
       \E t2 \in {setRow(t1, 2, 1, 1)} :
       \E t3 \in {setRow(t2, 3, 1, 1)} :
       \E t4 \in {setRow(t3, 1, 2, 1)} :
       \E t \in {setRow(t4, 3, 2, 1)} :
          /\ blockIndex = t.blockIndex
          /\ blockList = t.blockList
          /\ currentBlockIndex = t.currentBlockIndex
          /\ blockSetDefrag = t.blockSetDefrag
          /\ blocksNotFinalized = t.blocksNotFinalized
          /\ newBlocks = t.newBlocks
          /\ deltas = t.deltas
    /\ lastSavedBlockIndex = 0
    /\ loadedBlocks = <<>>
    /\ destroyed = FALSE
    /\ defragCandidates = <<>>
    /\ fd = NoFd
    /\ blockindex0Size = 0
    /\ blocklist0Size = 0
    /\ unloadTimer = FALSE
    /\ blockindex0 = NoFile
    /\ blockindex1 = NoFile
    /\ blocklist0 = NoFile
    /\ blocklist1 = NoFile
    /\ blockFiles = <<>>
    /\ pc = "idle"
    /\ saveStep = 0
    /\ lastSavedBI = 0
    /\ finPos = 0
    /\ defragIndex = 0
    /\ opCount = 0
    /\ lastSet = [id \in DumpIds |-> IF id = 2 THEN 1 ELSE 2]
    /\ wentWrong = FALSE
    /\ committed = [id \in DumpIds |-> ""]

\* setRow and saveDelta, without the cache and without failures.
RowsNextDump ==
    \/ \E id \in DumpIds, deltaStep \in DeltaSteps : SetRow(id, deltaStep)
    \/ \E deltaStep \in DeltaSteps : SaveDeltaStart(deltaStep)
    \/ SaveDeltaDefrag
    \/ SaveDeltaBlockIndex
    \/ SaveDeltaBlockList
    \/ SaveDeltaBlockRows
    \/ finalizeBlocks
    \/ dumpMaps
    \/ SaveDeltaDelFiles
    \/ SaveDeltaReturns

\* The calls of the row engine without deleteRow, cancelDelta, destroy and
\* failures of the file system.
RowsNextSaved ==
    \/ \E id \in Ids, deltaStep \in DeltaSteps : SetRow(id, deltaStep)
    \/ \E deltaStep \in DeltaSteps : SaveDeltaStart(deltaStep)
    \/ SaveDeltaDefrag
    \/ SaveDeltaDefragLoad
    \/ SaveDeltaBlockIndex
    \/ SaveDeltaBlockList
    \/ SaveDeltaBlockRows
    \/ finalizeBlocks
    \/ dumpMaps
    \/ SaveDeltaDelFiles
    \/ SaveDeltaReturns
    \/ unloadBlocksIfNeeded
    \/ \E id \in Ids : getRow(id)

\* setRow, deleteRow and saveDelta in a process that may stop inside
\* saveDelta and be followed by a new one.
RowsNextCrash ==
    \/ \E id \in Ids, deltaStep \in DeltaSteps : SetRow(id, deltaStep)
    \/ \E id \in Ids, deltaStep \in DeltaSteps : DeleteRow(id, deltaStep)
    \/ \E deltaStep \in DeltaSteps : SaveDeltaStart(deltaStep)
    \/ SaveDeltaDefrag
    \/ SaveDeltaBlockIndex
    \/ SaveDeltaBlockList
    \/ SaveDeltaBlockRows
    \/ finalizeBlocks
    \/ dumpMaps
    \/ SaveDeltaDelFiles
    \/ SaveDeltaReturns
    \/ CrashLoad

\* The calls of the row engine with both ways of opening a table, without
\* deleteRow, cancelDelta, the cache and failures of the file system.
RowsNextCorrupted ==
    \/ \E id \in Ids, deltaStep \in DeltaSteps : SetRow(id, deltaStep)
    \/ \E deltaStep \in DeltaSteps : SaveDeltaStart(deltaStep)
    \/ SaveDeltaDefrag
    \/ SaveDeltaBlockIndex
    \/ SaveDeltaBlockList
    \/ SaveDeltaBlockRows
    \/ finalizeBlocks
    \/ dumpMaps
    \/ SaveDeltaDelFiles
    \/ SaveDeltaReturns
    \/ destroy
    \/ Reopen
    \/ ReopenCorrupted

RowsNext ==
    \/ \E id \in Ids, deltaStep \in DeltaSteps : SetRow(id, deltaStep)
    \/ \E id \in Ids, deltaStep \in DeltaSteps : DeleteRow(id, deltaStep)
    \/ \E deltaStep \in DeltaSteps : cancelDelta(deltaStep)
    \/ \E deltaStep \in DeltaSteps : SaveDeltaStart(deltaStep)
    \/ SaveDeltaDefrag
    \/ SaveDeltaDefragLoad
    \/ SaveDeltaBlockIndex
    \/ SaveDeltaBlockList
    \/ SaveDeltaBlockRows
    \/ finalizeBlocks
    \/ dumpMaps
    \/ SaveDeltaDelFiles
    \/ SaveDeltaReturns
    \/ SaveDeltaFails
    \/ unloadBlocksIfNeeded
    \/ \E id \in Ids : getRow(id)
    \/ destroy
    \/ Reopen

\* ==================================================== the bytes of a file
\* A file is a sequence of characters.  JSON.stringify and JSON.parse are
\* modelled over the values the row engine writes to a block file: arrays
\* of numbers.
Digits == <<"0", "1", "2", "3", "4", "5", "6", "7", "8", "9">>

IsDigit(ch) == SeqHas(Digits, ch)

DigitVal(ch) == CHOOSE d \in 0..9 : Digits[d + 1] = ch

\* JSON.stringify([id, row]) of a record of delta.blockRows.
stringify(rec) == <<"[", Digits[rec[1] + 1], ",", Digits[rec[2] + 1], "]">>

\* buf.join(',') + ',' over the stringified records.
RECURSIVE joinRecs(_)
joinRecs(recs) ==
    IF recs = <<>> THEN <<>>
    ELSE stringify(Head(recs)) \o <<",">> \o joinRecs(Tail(recs))

\* The header openFd writes into a file it creates.
Header == <<"0", "[">>

ParseError == [ok |-> FALSE, val |-> <<>>, pos |-> 0]

RECURSIVE skipWs(_, _)
skipWs(buf, i) ==
    IF i <= Len(buf) /\ buf[i] = " " THEN skipWs(buf, i + 1) ELSE i

RECURSIVE parseNumber(_, _, _)
parseNumber(buf, i, n) ==
    IF i <= Len(buf) /\ IsDigit(buf[i])
    THEN parseNumber(buf, i + 1, 10 * n + DigitVal(buf[i]))
    ELSE [ok |-> TRUE, val |-> n, pos |-> i]

\* JSON.parse of a value at position i: its value and the position behind
\* it, or an error.  parseElements reads the elements of an array whose
\* next element starts at i.
RECURSIVE parseValue(_, _)
RECURSIVE parseElements(_, _, _)
parseValue(buf, i) ==
    IF i > Len(buf) THEN ParseError
    ELSE IF buf[i] = "["
         THEN With(skipWs(buf, i + 1), LAMBDA j :
              IF j <= Len(buf) /\ buf[j] = "]"
              THEN [ok |-> TRUE, val |-> <<>>, pos |-> j + 1]
              ELSE parseElements(buf, j, <<>>))
         ELSE IF IsDigit(buf[i])
              THEN IF buf[i] = "0" /\ i < Len(buf) /\ IsDigit(buf[i + 1])
                   THEN ParseError
                   ELSE parseNumber(buf, i, 0)
              ELSE ParseError

parseElements(buf, i, acc) ==
    With(parseValue(buf, i), LAMBDA v :
    IF ~v.ok THEN ParseError
    ELSE With(skipWs(buf, v.pos), LAMBDA j :
         IF j > Len(buf) THEN ParseError
         ELSE IF buf[j] = ","
              THEN parseElements(buf, skipWs(buf, j + 1), Append(acc, v.val))
              ELSE IF buf[j] = "]"
                   THEN [ok |-> TRUE, val |-> Append(acc, v.val), pos |-> j + 1]
                   ELSE ParseError))

\* JSON.parse(buf): the value, or ok = FALSE where it throws.
JSONparse(buf) ==
    With(parseValue(buf, skipWs(buf, 1)), LAMBDA v :
    IF v.ok /\ skipWs(buf, v.pos) > Len(buf)
    THEN [done |-> TRUE, ok |-> TRUE, arr |-> v.val]
    ELSE [done |-> TRUE, ok |-> FALSE, arr |-> <<>>])

\* utils.inflate: the data of a deflated buffer (its first byte stands for
\* the zlib header), an error for other bytes.
inflate(packed) ==
    IF packed # <<>> /\ packed[1] = "z"
    THEN [ok |-> TRUE, data |-> Tail(packed)]
    ELSE [ok |-> FALSE, data |-> <<>>]

\* buf.lastIndexOf(','), counted from 1: 0 when there is none.
RECURSIVE lastIndexOf(_, _, _)
lastIndexOf(buf, ch, i) ==
    IF i = 0 THEN 0
    ELSE IF buf[i] = ch THEN i ELSE lastIndexOf(buf, ch, i - 1)

\* loadFile(filePath) over the bytes buf of the file.
loadFileBytes(buf, allow) ==
    IF Len(buf) = 0 THEN [done |-> TRUE, ok |-> FALSE, arr |-> <<>>]
    ELSE IF buf[1] = "2"
         THEN With(inflate(Tail(buf)), LAMBDA data :
              IF data.ok THEN JSONparse(data.data)
              ELSE [done |-> TRUE, ok |-> FALSE, arr |-> <<>>])
         ELSE With([buf EXCEPT ![1] = " "], LAMBDA b :
              IF buf[1] = "1" THEN JSONparse(b)
              ELSE IF b[Len(b)] = ","
                   THEN JSONparse([b EXCEPT ![Len(b)] = "]"])
                   ELSE With(lastIndexOf(b, ",", Len(b)), LAMBDA lastComma :
                        IF allow /\ lastComma > 0
                        THEN JSONparse(SubSeq(b, 1, lastComma - 1) \o <<"]">>)
                        ELSE JSONparse(b \o <<"]">>)))

NotLoaded == [done |-> FALSE, ok |-> FALSE, arr |-> <<>>]

\* loadCorrupted() begins: this.allowCorrupted = true.
loadCorrupted ==
    /\ ~loadResult.done /\ ~allowCorrupted
    /\ allowCorrupted' = TRUE
    /\ UNCHANGED <<fileBuf, fileRecs, loadResult>>
    /\ UNCHANGED notFile

\* loadFile(filePath) is called and returns or throws.
LoadFile ==
    /\ ~loadResult.done
    /\ loadResult' = loadFileBytes(fileBuf, allowCorrupted)
    /\ UNCHANGED <<fileBuf, fileRecs, allowCorrupted>>
    /\ UNCHANGED notFile

\* The records a block file may hold, and the files a crash may leave: the
\* header, complete records with their commas, and the first cut
\* characters of one more record.
FileRecs == Ids \X (1..MaxOps)

CutFile(recs, rec, cut) ==
    Header \o joinRecs(recs) \o SubSeq(stringify(rec), 1, cut)

FileInit ==
    /\ fileBuf = <<>>
    /\ fileRecs = <<>>
    /\ allowCorrupted = FALSE
    /\ loadResult = NotLoaded

CutFileInit ==
    /\ \E n \in 0..MaxRecs : \E recs \in [1..n -> FileRecs] :
       \E rec \in FileRecs : \E cut \in 0..(Len(stringify(rec)) - 1) :
          /\ fileBuf = CutFile(recs, rec, cut)
          /\ fileRecs = recs
    /\ allowCorrupted = FALSE
    /\ loadResult = NotLoaded

LoadFileNext ==
    \/ loadCorrupted
    \/ LoadFile

\* ========================================================== sharded table
\* The shard cache of ShardedTable.js.  LockQueue.js and BasicTable.js are
\* not part of the sources at hand: a lock queue is modelled as the FIFO
\* single-holder mutex the specification describes (freed, waitingQueue),
\* and a basic table as the rows it holds.
\* openedShardNames holds the keys of openedShardTables: the code changes
\* the two together.
openedShardNames == openedShardTables

\* ------------------------------------------------------------ lock queue
NewLockQueue == [freed |-> TRUE, waitingQueue |-> <<>>]

\* ret(): the first waiter, if any, is resumed; a waiter of get() holds the
\* lock again, a waiter of wait() does not.
LockRet(q) ==
    IF q.waitingQueue # <<>>
    THEN [freed |-> ~Head(q.waitingQueue)[2],
          waitingQueue |-> Tail(q.waitingQueue)]
    ELSE [freed |-> TRUE, waitingQueue |-> <<>>]

\* The caller ret() resumes, as a set.
Woken(q) == IF q.waitingQueue # <<>> THEN {Head(q.waitingQueue)[1]} ELSE {}

\* Where a resumed caller goes on.
Resume(pcs, procs) ==
    [p \in DOMAIN pcs |->
        IF p \notin procs THEN pcs[p]
        ELSE IF pcs[p] = "waitTab" THEN "locked"
        ELSE IF pcs[p] = "waitTabClose" THEN "closeLocked"
        ELSE IF pcs[p] = "waitCache" THEN "new"
        ELSE pcs[p]]

\* ------------------------------------------ the lock of a block rows file
Readers == 1..MaxReaders

Unlinker == 0

\* getFileLock(fileName): the queue of the map, made when there is none.
\* The result's fileLockMap is the queue returned.
getFileLock(t) ==
    IF t.fileLockMap # 0 THEN t
    ELSE [fileLockMap |-> Len(t.fileQueues) + 1,
          fileQueues |-> Append(t.fileQueues, NewLockQueue)]

\* await fLock.get() of caller p on the queue getFileLock returns: the
\* caller holds the lock, or waits in the queue.
FileLockGet(p) ==
    \E t \in {getFileLock([fileLockMap |-> fileLockMap,
                            fileQueues |-> fileQueues])} :
       /\ Len(t.fileQueues) <= MaxQueues
       /\ fileLockMap' = t.fileLockMap
       /\ queueOf' = [queueOf EXCEPT ![p] = t.fileLockMap]
       /\ IF t.fileQueues[t.fileLockMap].freed
          THEN /\ fileQueues' = [t.fileQueues EXCEPT
                                    ![t.fileLockMap].freed = FALSE]
               /\ pcF' = [pcF EXCEPT ![p] = "locked"]
          ELSE /\ fileQueues' = [t.fileQueues EXCEPT
                                    ![t.fileLockMap].waitingQueue =
                                        Append(@, <<p, TRUE>>)]
               /\ pcF' = [pcF EXCEPT ![p] = "wait"]

\* fLock.ret() of caller p, who goes on at pc_: the first waiter of the
\* queue holds the lock.
FileLockRet(p, pc_) ==
    /\ fileQueues' = [fileQueues EXCEPT ![queueOf[p]] = LockRet(@)]
    /\ pcF' = [q \in DOMAIN pcF |->
                 IF q = p THEN pc_
                 ELSE IF q \in Woken(fileQueues[queueOf[p]]) THEN "locked"
                      ELSE pcF[q]]

\* loadBlock(block) is called: getFileLock and fLock.get().
LoadBlockGet(p) ==
    /\ pcF[p] = "idle"
    /\ loads < MaxLoads
    /\ loads' = loads + 1
    /\ FileLockGet(p)
    /\ UNCHANGED <<fileExists, blockRows>>
    /\ UNCHANGED notLock

\* loadBlock holds the lock: it starts loadFile if block.rows is not set,
\* else it returns the lock.
LoadBlockLocked(p) ==
    /\ pcF[p] = "locked"
    /\ IF blockRows
       THEN FileLockRet(p, "idle")
       ELSE pcF' = [pcF EXCEPT ![p] = "reading"] /\ UNCHANGED fileQueues
    /\ UNCHANGED <<fileLockMap, queueOf, fileExists, blockRows, loads>>
    /\ UNCHANGED notLock

\* loadFile has read the file, or has failed: the lock is returned.
LoadBlockRead(p) ==
    /\ pcF[p] = "reading"
    /\ blockRows' = (blockRows \/ fileExists)
    /\ FileLockRet(p, "idle")
    /\ UNCHANGED <<fileLockMap, queueOf, fileExists, loads>>
    /\ UNCHANGED notLock

\* The eviction pass unloads the block.
UnloadBlock ==
    /\ blockRows
    /\ blockRows' = FALSE
    /\ UNCHANGED <<fileLockMap, fileQueues, pcF, queueOf, fileExists, loads>>
    /\ UNCHANGED notLock

\* saveDelta comes to the file in delta.delFiles: getFileLock, fLock.get().
UnlinkGet ==
    /\ pcF[Unlinker] = "idle"
    /\ FileLockGet(Unlinker)
    /\ UNCHANGED <<fileExists, blockRows, loads>>
    /\ UNCHANGED notLock

\* The step below as it would be with fileLockMap.delete(fileName) ahead
\* of the awaits of the unlink.
UnlinkLockedDropsEntry ==
    /\ pcF[Unlinker] = "locked"
    /\ pcF' = [pcF EXCEPT ![Unlinker] = "exists"]
    /\ fileLockMap' = 0
    /\ UNCHANGED <<fileQueues, queueOf, fileExists, blockRows, loads>>
    /\ UNCHANGED notLock

\* saveDelta holds the lock and awaits utils.pathExists(fileName).
UnlinkLocked ==
    /\ pcF[Unlinker] = "locked"
    /\ pcF' = [pcF EXCEPT ![Unlinker] = "exists"]
    /\ UNCHANGED <<fileLockMap, fileQueues, queueOf, fileExists, blockRows,
                   loads>>
    /\ UNCHANGED notLock

\* pathExists has answered: fs.unlink is awaited, or, without a file, the
\* entry of fileLockMap is deleted and the lock returned.
UnlinkPathExists ==
    /\ pcF[Unlinker] = "exists"
    /\ IF fileExists
       THEN /\ pcF' = [pcF EXCEPT ![Unlinker] = "unlink"]
            /\ UNCHANGED <<fileLockMap, fileQueues>>
       ELSE /\ fileLockMap' = 0
            /\ FileLockRet(Unlinker, "done")
    /\ UNCHANGED <<queueOf, fileExists, blockRows, loads>>
    /\ UNCHANGED notLock

\* fs.unlink is done: the entry of fileLockMap is deleted and the lock
\* returned.
UnlinkDone ==
    /\ pcF[Unlinker] = "unlink"
    /\ fileExists' = FALSE
    /\ fileLockMap' = 0
    /\ FileLockRet(Unlinker, "done")
    /\ UNCHANGED <<queueOf, blockRows, loads>>
    /\ UNCHANGED notLock

LockInit ==
    /\ fileLockMap = 0
    /\ fileQueues = <<>>
    /\ pcF = [p \in Readers \cup {Unlinker} |-> "idle"]
    /\ queueOf = [p \in Readers \cup {Unlinker} |-> 0]
    /\ fileExists = TRUE
    /\ blockRows = FALSE
    /\ loads = 0

FileLockNext ==
    \/ \E p \in Readers : LoadBlockGet(p)
    \/ \E p \in Readers : LoadBlockLocked(p)
    \/ \E p \in Readers : LoadBlockRead(p)
    \/ UnloadBlock
    \/ UnlinkGet
    \/ UnlinkLocked
    \/ UnlinkPathExists
    \/ UnlinkDone

\* ------------------------------------------------------- the shard cache
\* The fields the cache bookkeeping reads and writes, as one record.
Sh ==
    [shardLockList |-> shardLockList,
     openedShardTables |-> openedShardTables,
     closableShardNames |-> closableShardNames,
     cachedShardNames |-> cachedShardNames,
     cachedShardLock |-> cachedShardLock,
     tableLockMap |-> tableLockMap,
     pcS |-> pcS, closing |-> closing]

ShBecomes(t) ==
    /\ shardLockList' = t.shardLockList
    /\ openedShardTables' = t.openedShardTables
    /\ closableShardNames' = t.closableShardNames
    /\ cachedShardNames' = t.cachedShardNames
    /\ cachedShardLock' = t.cachedShardLock
    /\ tableLockMap' = t.tableLockMap
    /\ pcS' = t.pcS
    /\ closing' = t.closing

\* _checkCachedShardLock as it would be without its call of ret().
_checkCachedShardLockNoRet(t) ==
    IF Cardinality(t.cachedShardNames) <= cacheShards
    THEN t
    ELSE IF t.cachedShardLock.freed
         THEN [t EXCEPT !.cachedShardLock.freed = FALSE]
         ELSE t

_checkCachedShardLock(t) ==
    IF Cardinality(t.cachedShardNames) <= cacheShards
    THEN [t EXCEPT !.cachedShardLock = LockRet(@),
                   !.pcS = Resume(@, Woken(t.cachedShardLock))]
    ELSE IF t.cachedShardLock.freed
         THEN [t EXCEPT !.cachedShardLock.freed = FALSE]
         ELSE t

_updateShardLockList(t, shard, lockN, persN) ==
    LET l == t.shardLockList[shard].lock + lockN
        p == t.shardLockList[shard].pers + persN
        lockRec == [lock |-> IF l < 0 THEN 0 ELSE l,
                    pers |-> IF p < 0 THEN 0 ELSE p]
        t1 == [t EXCEPT !.shardLockList[shard] = lockRec]
    IN IF lockRec.pers > 0
       THEN _checkCachedShardLock(
                [t1 EXCEPT !.closableShardNames = SetDel(@, shard),
                           !.cachedShardNames = @ \ {shard}])
       ELSE _checkCachedShardLock(
                [t1 EXCEPT !.closableShardNames =
                               IF lockRec.lock > 0 THEN SetDel(@, shard)
                               ELSE SetAdd(@, shard),
                           !.cachedShardNames = @ \cup {shard}])

\* tabLock.ret() of a shard's lock.
tabLockRet(t, shard) ==
    [t EXCEPT !.tableLockMap[shard] = LockRet(@),
              !.pcS = Resume(@, Woken(t.tableLockMap[shard]))]

\* tabLock.get() of a shard's lock by p, which goes on at pc once it holds
\* the lock and waits at wait until then.
tabLockGet(t, p, shard, pc_, wait) ==
    IF t.tableLockMap[shard].freed
    THEN [t EXCEPT !.tableLockMap[shard].freed = FALSE, !.pcS[p] = pc_]
    ELSE [t EXCEPT !.tableLockMap[shard].waitingQueue = Append(@, <<p, TRUE>>),
                   !.pcS[p] = wait]

\* The head of the loop of _closeShards(): the next shard of
\* closableShardNames and the tabLock.get() for it, or the return.
closeNext(t, p) ==
    IF t.closableShardNames = <<>> THEN [t EXCEPT !.pcS[p] = "unlocked"]
    ELSE tabLockGet([t EXCEPT !.closing[p] = Head(t.closableShardNames)],
                    p, Head(t.closableShardNames), "closeLocked",
                    "waitTabClose")

\* _unlockShard as it would be without its call of _closeShards().
_unlockShardOnly(t, p, shard) ==
    [_updateShardLockList(t, shard, -1, 0) EXCEPT !.pcS[p] = "unlocked"]

\* _unlockShard(shard) up to the first await of _closeShards().
_unlockShard(t, p, shard) ==
    LET t1 == _updateShardLockList(t, shard, -1, 0)
    IN IF Cardinality(t1.cachedShardNames) <= cacheShards
       THEN [t1 EXCEPT !.pcS[p] = "unlocked"]
       ELSE closeNext(t1, p)

\* _getOpenedShardsFirst over the shards of S.
_getOpenedShardsFirst(S) ==
    SeqOfSet(S \cap openedShardNames) \o SeqOfSet(S \ openedShardNames)

\* The loop of _getFreeShardNum(): the first numbers, from i on, that no
\* shard record of shardList carries.
RECURSIVE FreeNums(_, _, _)
FreeNums(nums, i, free) ==
    IF Len(free) >= maxFreeShardNumsLength THEN free
    ELSE FreeNums(nums, i + 1, IF i \in nums THEN free ELSE Append(free, i))

\* _getFreeShardNum(): the number it returns and the pool it leaves.
_getFreeShardNum ==
    LET pool == IF freeShardNums = <<>>
                THEN FreeNums({shardNums[s] : s \in DOMAIN shardList}, 0, <<>>)
                ELSE freeShardNums
    IN [num |-> Head(pool), freeShardNums |-> Tail(pool)]

\* The autoincrement a basic table has after open(): the seed its rows
\* file's load() returns, one more than the greatest id it holds, 0 for a
\* table without rows.
openSeed(ids) == IF ids = {} THEN 0 ELSE MaxOf(ids) + 1

\* ------------------------------------------------------------- operations
\* _checkErrors() as it would be without the test of fileError.
_checkErrorsNoFileError ==
    IF closed THEN "Table closed"
    ELSE IF ~opened THEN "Table has not been opened yet"
    ELSE ""

\* _checkErrors(): the message of the Error it throws, '' when it returns.
_checkErrors ==
    IF fileError # "" THEN fileError
    ELSE IF closed THEN "Table closed"
    ELSE IF ~opened THEN "Table has not been opened yet"
    ELSE ""

\* select(query) with query.shards = S and query.persistent = persistent
\* starts and calls _lockShard; no statement reads query.persistent.
Select(p, S, persistent) ==
    /\ pcS[p] = "idle"
    /\ _checkErrors = ""
    /\ shardOps < MaxShardOps
    /\ S \cap DOMAIN shardList # {}
    /\ LET shards == _getOpenedShardsFirst(S \cap DOMAIN shardList)
       IN /\ todo' = [todo EXCEPT ![p] = Tail(shards)]
          /\ curShard' = [curShard EXCEPT ![p] = Head(shards)]
          /\ ShBecomes(tabLockGet(Sh, p, Head(shards), "locked", "waitTab"))
    /\ kind' = [kind EXCEPT ![p] = "select"]
    /\ shardOps' = shardOps + 1
    /\ UNCHANGED <<infoShard, shardList, lock, shardListTable, shardTables,
                   crashes>>
    /\ persistentAsked' = (IF persistent
                           THEN persistentAsked \cup (S \cap DOMAIN shardList)
                           ELSE persistentAsked \ S)
    /\ owed' = [owed EXCEPT
                   ![p] = [s \in Shards |->
                              IF s \in S \cap DOMAIN shardList THEN 1 ELSE 0]]
    /\ UNCHANGED <<notShard, idVars, instVars, autoVars, metaVars>>

\* insert(query) of one row for every shard of S takes this.lock and calls
\* _lockShard.
Insert(p, S) ==
    /\ pcS[p] = "idle"
    /\ _checkErrors = ""
    /\ shardOps < MaxShardOps
    /\ lock
    /\ lock' = FALSE
    /\ LET shards == _getOpenedShardsFirst(S)
       IN /\ todo' = [todo EXCEPT ![p] = Tail(shards)]
          /\ curShard' = [curShard EXCEPT ![p] = Head(shards)]
          /\ ShBecomes(tabLockGet(Sh, p, Head(shards), "locked", "waitTab"))
    /\ kind' = [kind EXCEPT ![p] = "insert"]
    /\ shardOps' = shardOps + 1
    /\ UNCHANGED <<infoShard, shardList, shardListTable, shardTables,
                   crashes>>
    /\ shardedRows' = [shardedRows EXCEPT
                          ![p] = [s \in Shards |-> IF s \in S THEN 1 ELSE 0]]
    /\ UNCHANGED autoShard
    /\ UNCHANGED <<notShard, idVars, instVars, askVars, metaVars>>

\* The shards of S in the order of the Map shardList: the order in which
\* their records were made, which is the order of their nums.
RECURSIVE MapOrder(_)
MapOrder(S) ==
    IF S = {} THEN <<>>
    ELSE LET shard == CHOOSE x \in S :
                          \A y \in S : shardNums[x] <= shardNums[y]
         IN <<shard>> \o MapOrder(S \ {shard})

\* A list record for every shard of the sequence.
ListRecs(shards) ==
    [i \in 1..Len(shards) |->
        [shard |-> shards[i], count |-> autoShardSize - shardList[shards[i]]]]

\* Step 0 of _genAutoShard(): the shards with room, the open ones last.
ExistingShards ==
    LET room == {shard \in DOMAIN shardList :
                    shardList[shard] < autoShardSize}
    IN ListRecs(MapOrder(room \ openedShardNames))
       \o ListRecs(MapOrder(room \cap openedShardNames))

\* Step 1 of _genAutoShard(): the first maxAutoShardListLength names
\* auto_<i> that shardList does not hold, before list.reverse().
RECURSIVE NewShards(_, _)
NewShards(i, list) ==
    IF Len(list) >= maxAutoShardListLength THEN list
    ELSE NewShards(i + 1,
                   IF i \in DOMAIN shardList THEN list
                   ELSE Append(list, [shard |-> i, count |-> autoShardSize]))

Reverse(list) == [i \in 1..Len(list) |-> list[Len(list) + 1 - i]]

\* _genAutoShard() on the value a of this.autoShard: the shard it returns
\* and the value it leaves.
RECURSIVE _genAutoShard(_)
_genAutoShard(a) ==
    IF a.list # <<>>
    THEN LET last == a.list[Len(a.list)]
             front == SubSeq(a.list, 1, Len(a.list) - 1)
             count == last.count - 1
             list == IF count <= 0 THEN front
                     ELSE Append(front, [last EXCEPT !.count = count])
         IN IF \/ last.shard \notin DOMAIN shardList
               \/ shardList[last.shard] < autoShardSize
            THEN [shard |-> last.shard, a |-> [a EXCEPT !.list = list]]
            ELSE _genAutoShard([a EXCEPT !.list = front])
    ELSE IF a.step = 0
         THEN _genAutoShard([step |-> 1, list |-> ExistingShards])
         ELSE _genAutoShard([a EXCEPT !.list = Reverse(NewShards(1, <<>>))])

\* The loop of insert over n rows with shard '___auto': the shard of every
\* row, in the order of the rows, and the value of this.autoShard after it.
RECURSIVE genRows(_, _, _)
genRows(a, n, shards) ==
    IF n = 0 THEN [a |-> a, shards |-> shards]
    ELSE With(_genAutoShard(a),
              LAMBDA r : genRows(r.a, n - 1, Append(shards, r.shard)))

\* insert(query) of n rows with shard '___auto' takes this.lock, gives
\* every row its shard and calls _lockShard.
InsertAuto(p, n) ==
    /\ pcS[p] = "idle"
    /\ _checkErrors = ""
    /\ shardOps < MaxShardOps
    /\ lock
    /\ lock' = FALSE
    /\ \E g \in {genRows(autoShard, n, <<>>)} :
          /\ \A i \in 1..n : g.shards[i] \in Shards
          /\ autoShard' = g.a
          /\ shardedRows' =
                 [shardedRows EXCEPT
                     ![p] = [s \in Shards |->
                                Cardinality({i \in 1..n : g.shards[i] = s})]]
          /\ \E shards \in {_getOpenedShardsFirst(
                                {g.shards[i] : i \in 1..n})} :
                /\ todo' = [todo EXCEPT ![p] = Tail(shards)]
                /\ curShard' = [curShard EXCEPT ![p] = Head(shards)]
                /\ ShBecomes(tabLockGet(Sh, p, Head(shards), "locked",
                                        "waitTab"))
    /\ kind' = [kind EXCEPT ![p] = "insert"]
    /\ shardOps' = shardOps + 1
    /\ UNCHANGED <<infoShard, shardList, shardListTable, shardTables,
                   crashes>>
    /\ UNCHANGED <<notShard, idVars, instVars, askVars, metaVars>>

\* The length property of the value select keeps in selectedShards: the
\* number of elements of an Array; the iterator of Map.keys() has none
\* (undefined, 0 here: both make the test of the if false).
LengthOf(selectedShards) ==
    IF selectedShards.array THEN Len(selectedShards.items) ELSE 0

\* select(query) without query.shards: selectedShards is
\* this.shardList.keys(), and the shards are queried if
\* selectedShards.length.
SelectAll(p) ==
    /\ pcS[p] = "idle"
    /\ _checkErrors = ""
    /\ shardOps < MaxShardOps
    /\ \E selectedShards \in {[array |-> FALSE,
                                items |-> MapOrder(DOMAIN shardList)]} :
          /\ owed' = [owed EXCEPT
                         ![p] = [s \in Shards |->
                                    IF s \in DOMAIN shardList THEN 1 ELSE 0]]
          /\ IF LengthOf(selectedShards) # 0
             THEN \E shards \in {_getOpenedShardsFirst(DOMAIN shardList)} :
                     /\ todo' = [todo EXCEPT ![p] = Tail(shards)]
                     /\ curShard' = [curShard EXCEPT ![p] = Head(shards)]
                     /\ ShBecomes(tabLockGet(Sh, p, Head(shards), "locked",
                                             "waitTab"))
             ELSE UNCHANGED <<todo, curShard, shardLockList,
                              openedShardTables, closableShardNames,
                              cachedShardNames, cachedShardLock,
                              tableLockMap, pcS, closing>>
    /\ kind' = [kind EXCEPT ![p] = "select"]
    /\ shardOps' = shardOps + 1
    /\ UNCHANGED <<infoShard, shardList, lock, shardListTable, shardTables,
                   crashes>>
    /\ UNCHANGED <<notShard, idVars, instVars, persistentAsked, autoVars,
                   metaVars>>

\* The hashes and the indexes a query of create names.
Defs(query) ==
    {<<"hash", query.hash[i].field>> : i \in 1..Len(query.hash)}
    \cup {<<"index", query.index[i].field>> : i \in 1..Len(query.index)}

\* _checkUniqueMeta(query) as it would be without the test of query.index.
_checkUniqueMetaHashOnly(query) ==
    IF \E i \in 1..Len(query.hash) : query.hash[i].unique
    THEN "Unique hashes are forbidden"
    ELSE ""

\* _checkUniqueMeta(query): the message of the Error it throws, '' when it
\* returns.
_checkUniqueMeta(query) ==
    IF \E i \in 1..Len(query.hash) : query.hash[i].unique
    THEN "Unique hashes are forbidden"
    ELSE IF \E i \in 1..Len(query.index) : query.index[i].unique
         THEN "Unique indexes are forbidden"
         ELSE ""

\* create(query) up to await this.lock.get().
ShardedCreate(p, query) ==
    /\ pcS[p] = "idle"
    /\ _checkErrors = ""
    /\ shardOps < MaxShardOps
    /\ lock
    /\ lock' = FALSE
    /\ pcS' = [pcS EXCEPT ![p] = "create"]
    /\ kind' = [kind EXCEPT ![p] = "create"]
    /\ createQuery' = [createQuery EXCEPT ![p] = query]
    /\ shardOps' = shardOps + 1
    /\ UNCHANGED <<metaTable, shardMeta>>
    /\ UNCHANGED <<infoShard, shardList, shardLockList, openedShardTables,
                   closableShardNames, cachedShardNames, cachedShardLock,
                   tableLockMap, shardListTable, shardTables, todo, curShard,
                   closing, crashes>>
    /\ UNCHANGED <<notShard, idVars, instVars, askVars, autoVars>>

\* create(query) with this.lock: _checkUniqueMeta(query) throws and the
\* finally gives the lock back, or the loop over this.shardList.keys()
\* begins; without a shard the meta table is next.
CreateChecked(p) ==
    /\ pcS[p] = "create"
    /\ IF _checkUniqueMeta(createQuery[p]) # ""
       THEN /\ thrown' = [thrown EXCEPT
                              ![p] = <<"create",
                                       _checkUniqueMeta(createQuery[p])>>]
            /\ lock' = TRUE
            /\ pcS' = [pcS EXCEPT ![p] = "idle"]
            /\ UNCHANGED <<todo, curShard, shardLockList, openedShardTables,
                           closableShardNames, cachedShardNames,
                           cachedShardLock, tableLockMap, closing>>
       ELSE /\ UNCHANGED <<thrown, lock>>
            /\ IF DOMAIN shardList = {}
               THEN /\ pcS' = [pcS EXCEPT ![p] = "meta"]
                    /\ UNCHANGED <<todo, curShard, shardLockList,
                                   openedShardTables, closableShardNames,
                                   cachedShardNames, cachedShardLock,
                                   tableLockMap, closing>>
               ELSE \E shards \in {MapOrder(DOMAIN shardList)} :
                       /\ todo' = [todo EXCEPT ![p] = Tail(shards)]
                       /\ curShard' = [curShard EXCEPT ![p] = Head(shards)]
                       /\ ShBecomes(tabLockGet(Sh, p, Head(shards),
                                               "locked", "waitTab"))
    /\ UNCHANGED <<fileError, opened, closed, stateFile>>
    /\ UNCHANGED <<infoShard, shardList, shardListTable, shardTables, kind,
                   shardOps, crashes>>
    /\ UNCHANGED <<notShard, idVars, askVars, autoVars, metaVars>>

\* this.metaTable.create(query) returns, and the finally gives this.lock
\* back.
MetaCreate(p) ==
    /\ pcS[p] = "meta"
    /\ metaTable' = metaTable \cup Defs(createQuery[p])
    /\ lock' = TRUE
    /\ pcS' = [pcS EXCEPT ![p] = "idle"]
    /\ curShard' = [curShard EXCEPT ![p] = 0]
    /\ UNCHANGED <<shardMeta, createQuery>>
    /\ UNCHANGED <<infoShard, shardList, shardLockList, openedShardTables,
                   closableShardNames, cachedShardNames, cachedShardLock,
                   tableLockMap, shardListTable, shardTables, kind, todo,
                   closing, shardOps, crashes>>
    /\ UNCHANGED <<notShard, idVars, instVars, askVars, autoVars>>

\* insert(query) with a row that carries an id takes this.lock; the loop
\* over the rows is next.
InsertWithId(p) ==
    /\ pcS[p] = "idle"
    /\ _checkErrors = ""
    /\ shardOps < MaxShardOps
    /\ lock
    /\ lock' = FALSE
    /\ pcS' = [pcS EXCEPT ![p] = "rows"]
    /\ kind' = [kind EXCEPT ![p] = "rejected"]
    /\ shardOps' = shardOps + 1
    /\ UNCHANGED <<infoShard, shardList, shardLockList, openedShardTables,
                   closableShardNames, cachedShardNames, cachedShardLock,
                   tableLockMap, shardListTable, shardTables, todo, curShard,
                   closing, crashes>>
    /\ UNCHANGED <<notShard, idVars, instVars, askVars, autoVars, metaVars>>

\* InsertRejected as it would be without the lock.ret() of the finally.
InsertRejectedKeepsLock(p, n) ==
    /\ pcS[p] = "rows"
    /\ pcS' = [pcS EXCEPT ![p] = "idle"]
    /\ UNCHANGED <<infoShard, shardList, shardLockList, openedShardTables,
                   closableShardNames, cachedShardNames, cachedShardLock,
                   tableLockMap, lock, shardListTable, shardTables, kind,
                   todo, curShard, closing, shardOps, crashes>>
    /\ autoShard' = genRows(autoShard, n, <<>>).a
    /\ UNCHANGED shardedRows
    /\ UNCHANGED <<notShard, idVars, instVars, askVars, metaVars>>

\* The loop over the rows throws at the row with the id, before any
\* _lockShard, after _genAutoShard() for each of the n rows with shard
\* '___auto' that come before it; the finally gives this.lock back.
InsertRejected(p, n) ==
    /\ pcS[p] = "rows"
    /\ pcS' = [pcS EXCEPT ![p] = "idle"]
    /\ lock' = TRUE
    /\ UNCHANGED <<infoShard, shardList, shardLockList, openedShardTables,
                   closableShardNames, cachedShardNames, cachedShardLock,
                   tableLockMap, shardListTable, shardTables, kind, todo,
                   curShard, closing, shardOps, crashes>>
    /\ autoShard' = genRows(autoShard, n, <<>>).a
    /\ UNCHANGED shardedRows
    /\ UNCHANGED <<notShard, idVars, instVars, askVars, metaVars>>

\* select, insert, create or drop called while _checkErrors() throws: the
\* call ends with that Error before it does anything else.
CheckErrorsThrows(p, m) ==
    /\ pcS[p] = "idle"
    /\ _checkErrors # ""
    /\ thrown' = [thrown EXCEPT ![p] = <<m, _checkErrors>>]
    /\ UNCHANGED <<fileError, opened, closed, stateFile, askVars, autoVars>>
    /\ UNCHANGED <<infoShard, shardList, shardLockList, openedShardTables,
                   closableShardNames, cachedShardNames, cachedShardLock,
                   tableLockMap, lock, shardListTable, shardTables, pcS, kind,
                   todo, curShard, closing, shardOps, crashes>>
    /\ UNCHANGED <<notShard, idVars, metaVars>>

\* close() up to await this.lock.get(): nothing on an instance that is
\* closed already.
closeBegins(p) ==
    IF closed
    THEN UNCHANGED <<opened, closed, lock, pcS>>
    ELSE /\ lock
         /\ lock' = FALSE
         /\ opened' = FALSE
         /\ closed' = TRUE
         /\ pcS' = [pcS EXCEPT ![p] = "close"]

\* close() called by the owner of the instance.
close(p) ==
    /\ pcS[p] = "idle"
    /\ shardOps < MaxShardOps
    /\ shardOps' = shardOps + 1
    /\ closeBegins(p)
    /\ UNCHANGED <<fileError, stateFile, thrown, askVars, autoVars>>
    /\ UNCHANGED <<infoShard, shardList, shardLockList, openedShardTables,
                   closableShardNames, cachedShardNames, cachedShardLock,
                   tableLockMap, shardListTable, shardTables, kind, todo,
                   curShard, closing, crashes>>
    /\ UNCHANGED <<notShard, idVars, metaVars>>

\* markCorrupted(query): fileError is query.message || 'Table corrupted',
\* then close().
markCorrupted(p, message) ==
    /\ pcS[p] = "idle"
    /\ shardOps < MaxShardOps
    /\ shardOps' = shardOps + 1
    /\ fileError' = (IF message # "" THEN message ELSE "Table corrupted")
    /\ closeBegins(p)
    /\ UNCHANGED <<stateFile, thrown, askVars, autoVars>>
    /\ UNCHANGED <<infoShard, shardList, shardLockList, openedShardTables,
                   closableShardNames, cachedShardNames, cachedShardLock,
                   tableLockMap, shardListTable, shardTables, kind, todo,
                   curShard, closing, crashes>>
    /\ UNCHANGED <<notShard, idVars, metaVars>>

\* close() with this.lock: the tables of the meta data and of every open
\* shard are closed (_closeShards(true)), _saveState('0') when fileError is
\* set, and lock.ret().
closeTables(p) ==
    /\ pcS[p] = "close"
    /\ openedShardTables' = {}
    /\ autoIncrement' = [s \in Shards |->
                            IF s \in openedShardNames THEN 0
                            ELSE autoIncrement[s]]
    /\ stateFile' = (IF fileError # "" THEN "0" ELSE stateFile)
    /\ lock' = TRUE
    /\ pcS' = [pcS EXCEPT ![p] = "idle"]
    /\ UNCHANGED <<fileError, opened, closed, thrown, askVars, autoVars>>
    /\ UNCHANGED <<infoShard, shardList, shardLockList, closableShardNames,
                   cachedShardNames, cachedShardLock, tableLockMap,
                   shardListTable, shardTables, kind, todo, curShard, closing,
                   shardOps, crashes>>
    /\ UNCHANGED <<freeShardNums, shardNums, isNew, shardIds>>
    /\ UNCHANGED <<notShard, metaVars>>

\* _lockShard holds the shard's lock: the shard is open, or the caller
\* waits at the cache gate.
LockShardEntered(p) ==
    /\ pcS[p] = "locked"
    /\ IF curShard[p] \in openedShardNames
       THEN ShBecomes(tabLockRet(
                [_updateShardLockList(Sh, curShard[p], 1, 0) EXCEPT !.pcS[p] = "use"],
                curShard[p]))
       ELSE IF cachedShardLock.freed
            THEN ShBecomes([Sh EXCEPT !.pcS[p] = "new"])
            ELSE ShBecomes([Sh EXCEPT
                     !.cachedShardLock.waitingQueue = Append(@, <<p, FALSE>>),
                     !.pcS[p] = "waitCache"])
    /\ UNCHANGED <<infoShard, shardList, lock, shardListTable, shardTables,
                   kind, todo, curShard, shardOps, crashes>>
    /\ UNCHANGED <<notShard, idVars, instVars, askVars, autoVars, metaVars>>

\* _lockShard past the gate: _saveShardRec of a new shard's record.
LockShardNew(p) ==
    /\ pcS[p] = "new"
    /\ IF curShard[p] \notin DOMAIN shardList
       THEN /\ shardListTable' =
                   [shardListTable EXCEPT
                       !.recs = (curShard[p] :> 0) @@ shardListTable.recs]
            /\ pcS' = [pcS EXCEPT ![p] = "saved"]
            /\ isNew' = [isNew EXCEPT ![p] = TRUE]
            /\ shardNums' = [shardNums EXCEPT
                                 ![curShard[p]] = _getFreeShardNum.num]
            /\ freeShardNums' = _getFreeShardNum.freeShardNums
       ELSE /\ pcS' = [pcS EXCEPT ![p] = "open"]
            /\ isNew' = [isNew EXCEPT ![p] = FALSE]
            /\ UNCHANGED <<shardListTable, shardNums, freeShardNums>>
    /\ UNCHANGED <<infoShard, shardList, shardLockList, openedShardTables,
                   closableShardNames, cachedShardNames, cachedShardLock,
                   tableLockMap, lock, shardTables, kind, todo, curShard, closing,
                   shardOps, crashes>>
    /\ UNCHANGED <<autoIncrement, shardIds>>
    /\ UNCHANGED <<notShard, instVars, askVars, autoVars, metaVars>>

\* shardList.set(shard, shardRec) and the open of the shard's table.
LockShardSaved(p) ==
    /\ pcS[p] = "saved"
    /\ shardList' = (curShard[p] :> 0) @@ shardList
    /\ pcS' = [pcS EXCEPT ![p] = "open"]
    /\ UNCHANGED <<infoShard, shardLockList, openedShardTables,
                   closableShardNames, cachedShardNames, cachedShardLock,
                   tableLockMap, lock, shardListTable, shardTables, kind,
                   todo, curShard, closing, shardOps, crashes>>
    /\ UNCHANGED <<notShard, idVars, instVars, askVars, autoVars, metaVars>>

\* The table is open: _lockShard registers it, counts the lock and returns.
LockShardOpened(p) ==
    /\ pcS[p] = "open"
    /\ ShBecomes(tabLockRet(
           [_updateShardLockList(
                [Sh EXCEPT !.openedShardTables = @ \cup {curShard[p]}],
                curShard[p], 1, 0) EXCEPT !.pcS[p] = "use"],
           curShard[p]))
    /\ autoIncrement' =
           [autoIncrement EXCEPT
               ![curShard[p]] = IF isNew[p]
                                THEN shardCountStep * shardNums[curShard[p]]
                                ELSE openSeed(shardIds[curShard[p]])]
    /\ isNew' = [isNew EXCEPT ![p] = FALSE]
    /\ UNCHANGED <<infoShard, shardList, lock, shardListTable, shardTables,
                   kind, todo, curShard, shardOps, crashes>>
    /\ UNCHANGED <<freeShardNums, shardNums, shardIds>>
    /\ UNCHANGED <<notShard, instVars, askVars, autoVars, metaVars>>

\* table.select, table.insert({rows}) of the call's rows for the shard or
\* table.create(query) returns, and _unlockShard runs up to its first await.
TableOp(p) ==
    /\ pcS[p] = "use"
    /\ shardTables' = IF kind[p] = "insert"
                      THEN [shardTables EXCEPT
                               ![curShard[p]] =
                                   @ + shardedRows[p][curShard[p]]]
                      ELSE shardTables
    /\ IF kind[p] = "insert"
       THEN /\ shardIds' = [shardIds EXCEPT
                                ![curShard[p]] =
                                    @ \cup (autoIncrement[curShard[p]] ..
                                         autoIncrement[curShard[p]]
                                         + shardedRows[p][curShard[p]] - 1)]
            /\ autoIncrement' = [autoIncrement EXCEPT
                                    ![curShard[p]] =
                                        @ + shardedRows[p][curShard[p]]]
       ELSE UNCHANGED <<shardIds, autoIncrement>>
    /\ ShBecomes(_unlockShard(Sh, p, curShard[p]))
    /\ UNCHANGED <<infoShard, shardList, lock, shardListTable, kind, todo,
                   curShard, shardOps, crashes>>
    /\ UNCHANGED <<freeShardNums, shardNums, isNew>>
    /\ shardedRows' = [shardedRows EXCEPT ![p][curShard[p]] = 0]
    /\ UNCHANGED autoShard
    /\ owed' = (IF kind[p] = "select"
                THEN [owed EXCEPT ![p][curShard[p]] = @ - 1]
                ELSE owed)
    /\ shardMeta' = (IF kind[p] = "create"
                     THEN [shardMeta EXCEPT
                              ![curShard[p]] = @ \cup Defs(createQuery[p])]
                     ELSE shardMeta)
    /\ UNCHANGED <<metaTable, createQuery>>
    /\ UNCHANGED <<notShard, instVars, persistentAsked>>

\* table.insert throws before it stores a row: _unlockShard runs in the
\* finally, and the exception ends insert.
TableOpFails(p) ==
    /\ pcS[p] = "use"
    /\ kind[p] = "insert"
    /\ kind' = [kind EXCEPT ![p] = "failed"]
    /\ todo' = [todo EXCEPT ![p] = <<>>]
    /\ ShBecomes(_unlockShard(Sh, p, curShard[p]))
    /\ UNCHANGED <<infoShard, shardList, lock, shardListTable, shardTables,
                   curShard, shardOps, crashes>>
    /\ shardedRows' = [shardedRows EXCEPT ![p] = [s \in Shards |-> 0]]
    /\ UNCHANGED autoShard
    /\ UNCHANGED <<notShard, idVars, instVars, askVars, metaVars>>

\* CloseShardsLocked as it would be without the test of closableShardNames
\* once the shard's lock is held.
CloseShardsLockedAny(p) ==
    /\ pcS[p] = "closeLocked"
    /\ LET shard == closing[p]
       IN IF Cardinality(cachedShardNames) > cacheShards
          THEN IF shard \in openedShardNames
               THEN ShBecomes([Sh EXCEPT !.pcS[p] = "closing"])
               ELSE ShBecomes(closeNext(
                        tabLockRet([Sh EXCEPT !.closableShardNames =
                                                  SetDel(@, shard)], shard),
                        p))
          ELSE ShBecomes(tabLockRet([Sh EXCEPT !.pcS[p] = "unlocked"], shard))
    /\ UNCHANGED <<infoShard, shardList, lock, shardListTable, shardTables,
                   kind, todo, curShard, shardOps, crashes>>
    /\ UNCHANGED <<notShard, idVars, instVars, askVars, autoVars, metaVars>>

\* _closeShards holds the lock of the shard it looks at.
CloseShardsLocked(p) ==
    /\ pcS[p] = "closeLocked"
    /\ LET shard == closing[p]
       IN IF Cardinality(cachedShardNames) > cacheShards
          THEN IF SeqHas(closableShardNames, shard)
                  /\ shard \in openedShardNames
               THEN ShBecomes([Sh EXCEPT !.pcS[p] = "closing"])
               ELSE ShBecomes(closeNext(
                        tabLockRet([Sh EXCEPT !.closableShardNames =
                                                  SetDel(@, shard)], shard),
                        p))
          ELSE ShBecomes(tabLockRet([Sh EXCEPT !.pcS[p] = "unlocked"], shard))
    /\ UNCHANGED <<infoShard, shardList, lock, shardListTable, shardTables,
                   kind, todo, curShard, shardOps, crashes>>
    /\ UNCHANGED <<notShard, idVars, instVars, askVars, autoVars, metaVars>>

\* table.close() of the evicted shard returns.
CloseShardsClosed(p) ==
    /\ pcS[p] = "closing"
    /\ LET shard == closing[p]
           t1 == _checkCachedShardLock(
                     [Sh EXCEPT !.openedShardTables = @ \ {shard},
                                !.cachedShardNames = @ \ {shard}])
           t2 == [t1 EXCEPT !.closableShardNames = SetDel(@, shard)]
       IN ShBecomes(closeNext(tabLockRet(t2, shard), p))
    /\ autoIncrement' = [autoIncrement EXCEPT ![closing[p]] = 0]
    /\ UNCHANGED <<infoShard, shardList, lock, shardListTable, shardTables,
                   kind, todo, curShard, shardOps, crashes>>
    /\ UNCHANGED <<freeShardNums, shardNums, isNew, shardIds>>
    /\ UNCHANGED <<notShard, instVars, askVars, autoVars, metaVars>>

\* The next shard of the operation, or its end; after the last shard create
\* goes on to the meta table.
GoesOn(p) ==
    IF todo[p] = <<>>
    THEN /\ pcS' = [pcS EXCEPT
                        ![p] = IF kind[p] = "create" THEN "meta" ELSE "idle"]
         /\ lock' = (lock \/ kind[p] \notin {"select", "create"})
         /\ curShard' = [curShard EXCEPT ![p] = 0]
         /\ UNCHANGED <<todo, shardLockList, openedShardTables,
                        closableShardNames, cachedShardNames,
                        cachedShardLock, tableLockMap, closing>>
    ELSE /\ todo' = [todo EXCEPT ![p] = Tail(@)]
         /\ curShard' = [curShard EXCEPT ![p] = Head(todo[p])]
         /\ ShBecomes(tabLockGet(Sh, p, Head(todo[p]), "locked", "waitTab"))
         /\ UNCHANGED lock

\* _unlockShard has returned: select goes on, an insert that failed ends
\* and gives this.lock back; insert updates the counts of
\* the shard and of infoShard and calls _saveShardRec(shardRec).
Unlocked(p) ==
    /\ pcS[p] = "unlocked"
    /\ IF kind[p] # "insert"
       THEN /\ GoesOn(p)
            /\ UNCHANGED <<infoShard, shardList>>
       ELSE /\ infoShard' = infoShard - shardList[curShard[p]] + shardTables[curShard[p]]
            /\ shardList' = [shardList EXCEPT ![curShard[p]] = shardTables[curShard[p]]]
            /\ pcS' = [pcS EXCEPT ![p] = "saveRec"]
            /\ UNCHANGED <<shardLockList, openedShardTables,
                           closableShardNames, cachedShardNames,
                           cachedShardLock, tableLockMap, lock, todo, curShard,
                           closing>>
    /\ UNCHANGED <<shardListTable, shardTables, kind, shardOps, crashes>>
    /\ UNCHANGED <<notShard, idVars, instVars, askVars, autoVars, metaVars>>

\* _saveShardRec(shardRec) has stored the shard's record.
SaveShardRec(p) ==
    /\ pcS[p] = "saveRec"
    /\ shardListTable' = [shardListTable EXCEPT
                             !.recs[curShard[p]] = shardList[curShard[p]]]
    /\ pcS' = [pcS EXCEPT ![p] = "saveInfo"]
    /\ UNCHANGED <<infoShard, shardList, shardLockList, openedShardTables,
                   closableShardNames, cachedShardNames, cachedShardLock,
                   tableLockMap, lock, shardTables, kind, todo, curShard, closing,
                   shardOps, crashes>>
    /\ UNCHANGED <<notShard, idVars, instVars, askVars, autoVars, metaVars>>

\* _saveShardRec(this.infoShard) has stored the info record.
SaveInfoShard(p) ==
    /\ pcS[p] = "saveInfo"
    /\ shardListTable' = [shardListTable EXCEPT !.info = <<infoShard>>]
    /\ GoesOn(p)
    /\ UNCHANGED <<infoShard, shardList, shardTables, kind, shardOps,
                   crashes>>
    /\ UNCHANGED <<notShard, idVars, instVars, askVars, autoVars, metaVars>>

\* _loadMeta over the 'shards' table.
_loadMeta ==
    [shardList |-> shardListTable.recs,
     infoShard |-> IF shardListTable.info = <<>> THEN 0
                   ELSE shardListTable.info[1]]

\* The process stops wherever its calls are, and the table is opened again.
Interrupted ==
    /\ crashes < MaxCrashes
    /\ crashes' = crashes + 1
    /\ shardList' = _loadMeta.shardList
    /\ infoShard' = _loadMeta.infoShard
    /\ shardLockList' = [s \in Shards |-> [lock |-> 0, pers |-> 0]]
    /\ openedShardTables' = {}
    /\ closableShardNames' = <<>>
    /\ cachedShardNames' = {}
    /\ cachedShardLock' = NewLockQueue
    /\ tableLockMap' = [s \in Shards |-> NewLockQueue]
    /\ lock' = TRUE
    /\ pcS' = [p \in Procs |-> "idle"]
    /\ kind' = [p \in Procs |-> "select"]
    /\ todo' = [p \in Procs |-> <<>>]
    /\ curShard' = [p \in Procs |-> 0]
    /\ closing' = [p \in Procs |-> 0]
    /\ freeShardNums' = <<>>
    /\ isNew' = [p \in Procs |-> FALSE]
    /\ autoIncrement' = [s \in Shards |-> 0]
    /\ UNCHANGED <<shardListTable, shardTables, shardOps>>
    /\ UNCHANGED <<shardNums, shardIds>>
    /\ autoShard' = [step |-> 0, list |-> <<>>]
    /\ shardedRows' = [p \in Procs |-> [s \in Shards |-> 0]]
    /\ owed' = [p \in Procs |-> [s \in Shards |-> 0]]
    /\ UNCHANGED <<notShard, instVars, persistentAsked, metaVars>>

ShardInit ==
    /\ infoShard = 0
    /\ shardList = <<>>
    /\ shardLockList = [s \in Shards |-> [lock |-> 0, pers |-> 0]]
    /\ openedShardTables = {}
    /\ closableShardNames = <<>>
    /\ cachedShardNames = {}
    /\ cachedShardLock = NewLockQueue
    /\ tableLockMap = [s \in Shards |-> NewLockQueue]
    /\ lock = TRUE
    /\ shardListTable = [info |-> <<>>, recs |-> <<>>]
    /\ shardTables = [s \in Shards |-> 0]
    /\ pcS = [p \in Procs |-> "idle"]
    /\ kind = [p \in Procs |-> "select"]
    /\ todo = [p \in Procs |-> <<>>]
    /\ curShard = [p \in Procs |-> 0]
    /\ closing = [p \in Procs |-> 0]
    /\ shardOps = 0
    /\ crashes = 0
    /\ freeShardNums = <<>>
    /\ shardNums = [s \in Shards |-> -1]
    /\ isNew = [p \in Procs |-> FALSE]
    /\ autoIncrement = [s \in Shards |-> 0]
    /\ shardIds = [s \in Shards |-> {}]
    /\ persistentAsked = {}
    /\ metaTable = {}
    /\ shardMeta = [s \in Shards |-> {}]
    /\ createQuery = [p \in Procs |-> [hash |-> <<>>, index |-> <<>>]]
    /\ owed = [p \in Procs |-> [s \in Shards |-> 0]]
    /\ autoShard = [step |-> 0, list |-> <<>>]
    /\ shardedRows = [p \in Procs |-> [s \in Shards |-> 0]]
    /\ fileError = ""
    /\ opened = TRUE
    /\ closed = FALSE
    /\ stateFile = "1"
    /\ thrown = [p \in Procs |-> <<"", "">>]

ShardNext ==
    \/ \E p \in Procs, S \in SUBSET Shards \ {{}} : Select(p, S, FALSE)
    \/ \E p \in Procs, S \in SUBSET Shards \ {{}} : Insert(p, S)
    \/ \E p \in Procs : LockShardEntered(p)
    \/ \E p \in Procs : LockShardNew(p)
    \/ \E p \in Procs : LockShardSaved(p)
    \/ \E p \in Procs : LockShardOpened(p)
    \/ \E p \in Procs : TableOp(p)
    \/ \E p \in Procs : CloseShardsLocked(p)
    \/ \E p \in Procs : CloseShardsClosed(p)
    \/ \E p \in Procs : Unlocked(p)
    \/ \E p \in Procs : SaveShardRec(p)
    \/ \E p \in Procs : SaveInfoShard(p)
    \/ Interrupted

\* A step of the call of p that follows an await: the promise it awaits
\* is settled, and the event loop runs the continuation.
ShardStep(p) ==
    \/ LockShardEntered(p)
    \/ LockShardNew(p)
    \/ LockShardSaved(p)
    \/ LockShardOpened(p)
    \/ TableOp(p)
    \/ CloseShardsLocked(p)
    \/ CloseShardsClosed(p)
    \/ Unlocked(p)
    \/ SaveShardRec(p)
    \/ SaveInfoShard(p)

\* The sharded table after insert() of one row into each shard but the
\* last has returned: each of them has its record, and the table of the
\* last of them is open.
SavedShards == 1..(MaxShard - 1)

ShardsSavedInit ==
    /\ infoShard = MaxShard - 1
    /\ shardList = [s \in SavedShards |-> 1]
    /\ shardLockList = [s \in Shards |-> [lock |-> 0, pers |-> 0]]
    /\ openedShardTables = {MaxShard - 1}
    /\ closableShardNames = <<MaxShard - 1>>
    /\ cachedShardNames = {MaxShard - 1}
    /\ cachedShardLock = NewLockQueue
    /\ tableLockMap = [s \in Shards |-> NewLockQueue]
    /\ lock = TRUE
    /\ shardListTable = [info |-> <<MaxShard - 1>>,
                         recs |-> [s \in SavedShards |-> 1]]
    /\ shardTables = [s \in Shards |-> IF s \in SavedShards THEN 1 ELSE 0]
    /\ pcS = [p \in Procs |-> "idle"]
    /\ kind = [p \in Procs |-> IF p = 1 THEN "insert" ELSE "select"]
    /\ todo = [p \in Procs |-> <<>>]
    /\ curShard = [p \in Procs |-> 0]
    /\ closing = [p \in Procs |-> IF p = 1 THEN MaxShard - 1 ELSE 0]
    /\ shardOps = 1
    /\ crashes = 0
    /\ freeShardNums =
          SubSeq(FreeNums({}, 0, <<>>), MaxShard, maxFreeShardNumsLength)
    /\ shardNums = [s \in Shards |-> IF s \in SavedShards THEN s - 1 ELSE -1]
    /\ isNew = [p \in Procs |-> FALSE]
    /\ autoIncrement = [s \in Shards |->
                          IF s = MaxShard - 1
                          THEN shardCountStep * (s - 1) + 1 ELSE 0]
    /\ shardIds = [s \in Shards |->
                     IF s \in SavedShards THEN {shardCountStep * (s - 1)}
                     ELSE {}]
    /\ persistentAsked = {}
    /\ metaTable = {}
    /\ shardMeta = [s \in Shards |-> {}]
    /\ createQuery = [p \in Procs |-> [hash |-> <<>>, index |-> <<>>]]
    /\ owed = [p \in Procs |-> [s \in Shards |-> 0]]
    /\ autoShard = [step |-> 0, list |-> <<>>]
    /\ shardedRows = [p \in Procs |-> [s \in Shards |-> 0]]
    /\ fileError = ""
    /\ opened = TRUE
    /\ closed = FALSE
    /\ stateFile = "1"
    /\ thrown = [p \in Procs |-> <<"", "">>]

\* Concurrent selects and inserts, each on one shard, in a process that
\* goes on running.
ShardLiveNext ==
    \/ \E p \in Procs, s \in Shards : Select(p, {s}, FALSE)
    \/ \E p \in Procs, s \in Shards : Insert(p, {s})
    \/ \E p \in Procs : LockShardEntered(p)
    \/ \E p \in Procs : LockShardNew(p)
    \/ \E p \in Procs : LockShardSaved(p)
    \/ \E p \in Procs : LockShardOpened(p)
    \/ \E p \in Procs : TableOp(p)
    \/ \E p \in Procs : CloseShardsLocked(p)
    \/ \E p \in Procs : CloseShardsClosed(p)
    \/ \E p \in Procs : Unlocked(p)
    \/ \E p \in Procs : SaveShardRec(p)
    \/ \E p \in Procs : SaveInfoShard(p)

\* The methods of ShardedTable that begin with _checkErrors().
CheckedMethods == {"select", "insert", "create", "drop"}

\* The values of query.message: none, or a text.
Messages == {"", "disk failure"}

\* The values of query.hash and of query.index: none, a field, a unique
\* field, and an array with a unique field after a plain one.
FieldSpecs ==
    {<<>>,
     <<[field |-> 1, unique |-> FALSE]>>,
     <<[field |-> 1, unique |-> TRUE]>>,
     <<[field |-> 1, unique |-> FALSE], [field |-> 2, unique |-> TRUE]>>}

\* The queries of create.
CreateQueries == [hash : FieldSpecs, index : FieldSpecs]

\* The calls of one caller, one after the other, with inserts that fail.
ShardSeqNext ==
    \/ \E S \in SUBSET Shards \ {{}}, persistent \in BOOLEAN :
           Select(1, S, persistent)
    \/ SelectAll(1)
    \/ \E query \in CreateQueries : ShardedCreate(1, query)
    \/ CreateChecked(1)
    \/ MetaCreate(1)
    \/ \E S \in SUBSET Shards \ {{}} : Insert(1, S)
    \/ InsertWithId(1)
    \/ InsertRejected(1, 0)
    \/ LockShardEntered(1)
    \/ LockShardNew(1)
    \/ LockShardSaved(1)
    \/ LockShardOpened(1)
    \/ TableOp(1)
    \/ TableOpFails(1)
    \/ CloseShardsLocked(1)
    \/ CloseShardsClosed(1)
    \/ Unlocked(1)
    \/ SaveShardRec(1)
    \/ SaveInfoShard(1)
    \/ \E m \in CheckedMethods : CheckErrorsThrows(1, m)
    \/ close(1)
    \/ \E message \in Messages : markCorrupted(1, message)
    \/ closeTables(1)

\* The calls of one caller on a table whose rows all carry the shard
\* '___auto', with inserts that are rejected for a row with an id.
AutoShardNext ==
    \/ \E n \in 1..MaxRows : InsertAuto(1, n)
    \/ InsertWithId(1)
    \/ \E n \in 0..MaxRows : InsertRejected(1, n)
    \/ \E S \in SUBSET Shards \ {{}} : Select(1, S, FALSE)
    \/ LockShardEntered(1)
    \/ LockShardNew(1)
    \/ LockShardSaved(1)
    \/ LockShardOpened(1)
    \/ TableOp(1)
    \/ CloseShardsLocked(1)
    \/ CloseShardsClosed(1)
    \/ Unlocked(1)
    \/ SaveShardRec(1)
    \/ SaveInfoShard(1)

\* ================================================================ database
\* The table map, the per-table lock queues and the table directories of
\* JembaDb (src/unnamed/part_000).  The database is open.  A call is a
\* stack of frames, one for each function entered and not yet left; a
\* frame is the position in the function and the table names it works on.
Names == 0..(2 * MaxTable)

Temp(t) == t + MaxTable

LockedMethods == {"create", "drop", "dropIn", "truncate", "clone"}

RowMethods == {"select", "insert", "update", "delete"}

\* A frame: the position, the table names, and the id of the monRec of the
\* monitoring wrapper the function was called through (0: none).
Frame(l, t, to) == [pc |-> l, t |-> t, to |-> to, mon |-> 0]

Top(c) == frames[c][Len(frames[c])]

At(c, l) == pcD[c] = "run" /\ frames[c] # <<>> /\ Top(c).pc = l

\* _tableLock(t): the lock map and the queues once the queue of t is there.
_tableLock(t) ==
    IF dbTableLockMap[t] # 0
    THEN [map |-> dbTableLockMap, queues |-> lockQueues]
    ELSE [map |-> [dbTableLockMap EXCEPT ![t] = Len(lockQueues) + 1],
          queues |-> Append(lockQueues, NewLockQueue)]

\* this._tableLock(t).ret() on the lock map and queues l, at the end of
\* the call c: the first waiter of the queue goes on.
RetTableLock(c, l, t) ==
    /\ lockQueues' = [l.queues EXCEPT ![l.map[t]] = LockRet(@)]
    /\ pcD' = [d \in Calls |->
                  IF d = c THEN "idle"
                  ELSE IF /\ l.queues[l.map[t]].waitingQueue # <<>>
                          /\ Head(l.queues[l.map[t]].waitingQueue)[1] = d
                       THEN "run" ELSE pcD[d]]

\* The method of c returns or throws: the finally of create, drop,
\* truncate and clone calls this._tableLock(table).ret(), and the one of
\* drop deletes the entry of the lock map.
Finally(c) ==
    IF method[c] \in LockedMethods
    THEN \E l \in {_tableLock(arg[c])} :
           /\ RetTableLock(c, l, arg[c])
           /\ dbTableLockMap' =
                  IF method[c] \in {"drop", "dropIn"}
                  THEN [l.map EXCEPT ![arg[c]] = 0]
                  ELSE l.map
    ELSE /\ pcD' = [pcD EXCEPT ![c] = "idle"]
         /\ UNCHANGED <<dbTableLockMap, lockQueues>>

\* The frames of a call that goes on at l, and that leaves a function, and
\* with it the functions that return what it returns.
Goto(fs, l) == [fs EXCEPT ![Len(fs)].pc = l]

RECURSIVE Pop(_)
Pop(fs) ==
    IF Len(fs) > 1 /\ fs[Len(fs) - 1].pc = "return"
    THEN Pop(SubSeq(fs, 1, Len(fs) - 1))
    ELSE SubSeq(fs, 1, Len(fs) - 1)

\* The monitoring wrapper (setMonitoring, monMethods).  monTableInstance:
\* the monitoring table has an instance in the map that is not closed.
monTableInstance(tbl) == tbl[monitoringTable] = "opened"

\* The rows of the monitoring table, a memory table: gone when it closes.
MemRows(tbl, rows) == IF monTableInstance(tbl) THEN rows ELSE {}

\* The frame of a method called as this.open or this.close: with
\* monitoring enabled the call goes through the wrapper, which makes a
\* monRec with the id this.monitoringId++.
Mon(f) ==
    IF monitoringEnabled /\ f.pc \in {"open", "openCreate", "close"}
    THEN [f EXCEPT !.mon = monitoringId] ELSE f

\* The wrapper before the original method: monRec with timeEnd 0 is
\* inserted when the monitoring table has an instance.
MonBegin(id) ==
    /\ monitoringId' = IF id # 0 THEN monitoringId + 1 ELSE monitoringId
    /\ monRows' = IF id # 0 /\ monTableInstance(table)
                  THEN monRows \cup {[id |-> id, error |-> "", timeEnd |-> 0]}
                  ELSE monRows

\* The ids of the monRecs of the frames of c above the first n.
MonRecs(c, n) == {frames[c][i].mon : i \in (n + 1)..Len(frames[c])} \ {0}

\* insert({replace: true, rows: [monRec]}) with the error and a timeEnd.
Replace(rows, ids, msg) ==
    {r \in rows : r.id \notin ids}
        \cup {[id |-> i, error |-> msg, timeEnd |-> 1] : i \in ids}

\* The finally of the wrappers of the frames of c above the first n, which
\* runs after the step has changed the table map.
MonEnd(c, n, msg) ==
    monRows' = IF monitoringEnabled /\ monTableInstance(table')
               THEN Replace(monRows, MonRecs(c, n), msg)
               ELSE MemRows(table', monRows)

\* The call c goes on with the frames fs.
GoesTo(c, fs) ==
    /\ frames' = [frames EXCEPT ![c] = fs]
    /\ UNCHANGED <<error, monitoringEnabled, monitoringId>>
    /\ MonEnd(c, Len(fs), "")
    /\ IF fs = <<>> THEN Finally(c)
       ELSE UNCHANGED <<dbTableLockMap, lockQueues, pcD>>

\* The call c awaits the function of the frame f and will go on at l.
Awaits(c, l, f) ==
    \E g \in {Mon(f)} :
       /\ frames' = [frames EXCEPT ![c] = Append(Goto(frames[c], l), g)]
       /\ MonBegin(g.mon)
       /\ UNCHANGED <<error, monitoringEnabled, dbTableLockMap, lockQueues,
                      pcD>>

\* An exception leaves every function of the call.
Throws(c, msg) ==
    /\ frames' = [frames EXCEPT ![c] = <<>>]
    /\ error' = [error EXCEPT ![c] = msg]
    /\ UNCHANGED <<monitoringEnabled, monitoringId>>
    /\ MonEnd(c, 0, msg)
    /\ Finally(c)

\* tableExists({table: t}).
tableExists(t) == table[t] # "none" \/ dirs[t] >= 0

\* _checkTable without the look at the directory.
_checkTableNoDir(t) == "does not exist"

\* The message of _checkTable(t).
_checkTable(t) == IF tableExists(t) THEN "closed" ELSE "does not exist"

\* The first position of a method.
Entry(m, t) ==
    CASE m = "create" -> "create"
      [] m = "drop" -> "_drop"
      [] m = "dropIn" -> "_dropIn"
      [] m = "truncate" -> "truncate"
      [] m = "clone" -> "_clone"
      [] m \in {"open", "close", "closeAll"} -> m
      [] m \in RowMethods ->
            IF table[t] # "none" THEN "tableInstance" ELSE "_checkTable"

\* The method m of the call c starts: create, drop, truncate and clone
\* call _tableLock(t).get() and go on when they hold the queue.
Start(c, m, t, to) ==
    /\ \E id \in {IF monitoringEnabled THEN monitoringId ELSE 0} :
          /\ frames' = [frames EXCEPT
                            ![c] = <<[Frame(Entry(m, t), t, to)
                                         EXCEPT !.mon = id]>>]
          /\ MonBegin(id)
    /\ IF m \in LockedMethods
       THEN \E l \in {_tableLock(t)} :
              /\ dbTableLockMap' = l.map
              /\ IF l.queues[l.map[t]].freed
                 THEN /\ lockQueues' = [l.queues EXCEPT
                                           ![l.map[t]].freed = FALSE]
                      /\ pcD' = [pcD EXCEPT ![c] = "run"]
                 ELSE /\ lockQueues' = [l.queues EXCEPT
                                           ![l.map[t]].waitingQueue =
                                               Append(@, <<c, TRUE>>)]
                      /\ pcD' = [pcD EXCEPT ![c] = "wait"]
       ELSE /\ pcD' = [pcD EXCEPT ![c] = "run"]
            /\ UNCHANGED <<dbTableLockMap, lockQueues>>

\* A call of create({table: t}), drop({table: t}), drop({in: t, index}),
\* truncate({table: t}) or clone({table: t, toTable: to}).
Call(c, m, t, to) ==
    /\ pcD[c] = "idle"
    /\ dbOps < MaxDbOps
    /\ dbOps' = dbOps + 1
    /\ method' = [method EXCEPT ![c] = m]
    /\ arg' = [arg EXCEPT ![c] = t]
    /\ error' = [error EXCEPT ![c] = ""]
    /\ Start(c, m, t, to)
    /\ UNCHANGED <<table, dirs, monitoringEnabled>>
    /\ UNCHANGED notDb

\* create: tableExists has answered; this.open(query) with create is next.
Create(c) ==
    /\ At(c, "create")
    /\ UNCHANGED <<table, dirs, method, arg, dbOps>>
    /\ UNCHANGED notDb
    /\ IF tableExists(Top(c).t)
       THEN Throws(c, "already exists")
       ELSE Awaits(c, "return", Frame("openCreate", Top(c).t, -1))

\* The drop() of the instance has ended, and _drop returns.
Return(c) ==
    /\ At(c, "return")
    /\ UNCHANGED <<table, dirs, method, arg, dbOps>>
    /\ UNCHANGED notDb
    /\ GoesTo(c, Pop(frames[c]))

\* open: tableExists has answered; a table that has no opened instance gets
\* a new one, set in the map before its open() is awaited.
Open(c) ==
    /\ At(c, "open") \/ At(c, "openCreate")
    /\ UNCHANGED <<dirs, method, arg, dbOps>>
    /\ UNCHANGED notDb
    /\ IF tableExists(Top(c).t) \/ Top(c).pc = "openCreate"
       THEN IF table[Top(c).t] # "opened"
            THEN /\ table' = [table EXCEPT ![Top(c).t] = "new"]
                 /\ GoesTo(c, Goto(frames[c],
                                   IF Top(c).pc = "open" THEN "opening"
                                   ELSE "openingCreate"))
            ELSE /\ UNCHANGED table
                 /\ GoesTo(c, Pop(frames[c]))
       ELSE /\ UNCHANGED table
            /\ Throws(c, "does not exist")

\* open: the open() of the instance has ended; with create it has made the
\* directory, without it fails when there is none.
Opening(c) ==
    /\ At(c, "opening") \/ At(c, "openingCreate")
    /\ UNCHANGED <<method, arg, dbOps>>
    /\ UNCHANGED notDb
    /\ IF dirs[Top(c).t] < 0 /\ Top(c).pc = "opening"
       THEN /\ UNCHANGED <<table, dirs>>
            /\ Throws(c, "open failed")
       ELSE /\ table' = [table EXCEPT
                            ![Top(c).t] = IF @ = "new" THEN "opened" ELSE @]
            /\ dirs' = [dirs EXCEPT ![Top(c).t] = IF @ < 0 THEN 0 ELSE @]
            /\ GoesTo(c, Pop(frames[c]))

\* close: tableExists has answered; the close() of the instance is awaited.
Close(c) ==
    /\ At(c, "close")
    /\ UNCHANGED <<dirs, method, arg, dbOps>>
    /\ UNCHANGED notDb
    /\ IF tableExists(Top(c).t)
       THEN IF table[Top(c).t] # "none"
            THEN /\ table' = [table EXCEPT ![Top(c).t] = "closed"]
                 /\ GoesTo(c, Goto(frames[c], "closing"))
            ELSE /\ UNCHANGED table
                 /\ GoesTo(c, Pop(frames[c]))
       ELSE /\ UNCHANGED table
            /\ Throws(c, "does not exist")

\* close: the instance is closed; this.table.delete(t).
Closing(c) ==
    /\ At(c, "closing")
    /\ UNCHANGED <<dirs, method, arg, dbOps>>
    /\ UNCHANGED notDb
    /\ table' = [table EXCEPT ![Top(c).t] = "none"]
    /\ GoesTo(c, Pop(frames[c]))

\* _drop({table: t}): tableExists has answered; an opened instance is
\* closed, and fs.rm of the directory is awaited.
Drop(c) ==
    /\ At(c, "_drop")
    /\ UNCHANGED <<dirs, method, arg, dbOps>>
    /\ UNCHANGED notDb
    /\ IF tableExists(Top(c).t)
       THEN /\ table' = [table EXCEPT
                            ![Top(c).t] = IF @ = "opened" THEN "closed" ELSE @]
            /\ GoesTo(c, Goto(frames[c], "dropRm"))
       ELSE /\ UNCHANGED table
            /\ Throws(c, "does not exist")

\* _drop({table: t}): the directory is removed; this.table.delete(t).
DropRemoved(c) ==
    /\ At(c, "dropRm")
    /\ UNCHANGED <<method, arg, dbOps>>
    /\ UNCHANGED notDb
    /\ dirs' = [dirs EXCEPT ![Top(c).t] = -1]
    /\ table' = [table EXCEPT ![Top(c).t] = "none"]
    /\ GoesTo(c, Pop(frames[c]))

\* _drop({in: t, index}): the drop() of the instance is awaited.
DropIn(c) ==
    /\ At(c, "_dropIn")
    /\ UNCHANGED <<table, dirs, method, arg, dbOps>>
    /\ UNCHANGED notDb
    /\ IF tableExists(Top(c).t)
       THEN IF table[Top(c).t] # "none"
            THEN GoesTo(c, Goto(frames[c], "return"))
            ELSE Throws(c, "has not been opened yet")
       ELSE Throws(c, "does not exist")

\* _clone: the table has an instance and toTable does not exist; the
\* clone() of the instance is awaited.
Clone(c) ==
    /\ At(c, "_clone")
    /\ UNCHANGED <<table, dirs, method, arg, dbOps>>
    /\ UNCHANGED notDb
    /\ IF table[Top(c).t] # "none"
       THEN IF tableExists(Top(c).to)
            THEN Throws(c, "already exists")
            ELSE GoesTo(c, Goto(frames[c], "cloning"))
       ELSE Throws(c, _checkTable(Top(c).t))

\* _clone: the directory of toTable is written, without rows for the
\* filter 'nodata' of truncate; this.open({table: toTable}) is next.
Cloning(c) ==
    /\ At(c, "cloning")
    /\ UNCHANGED <<table, method, arg, dbOps>>
    /\ UNCHANGED notDb
    /\ dirs' = [dirs EXCEPT
                   ![Top(c).to] = IF method[c] = "truncate" \/ dirs[Top(c).t] < 0
                                  THEN 0 ELSE dirs[Top(c).t]]
    /\ Awaits(c, "return", Frame("open", Top(c).to, -1))

\* truncate: the table has an instance; fs.rm of the temporary directory
\* is awaited.
Truncate(c) ==
    /\ At(c, "truncate")
    /\ UNCHANGED <<table, dirs, method, arg, dbOps>>
    /\ UNCHANGED notDb
    /\ IF table[Top(c).t] # "none"
       THEN GoesTo(c, Goto(frames[c], "truncRm"))
       ELSE Throws(c, _checkTable(Top(c).t))

\* truncate: the temporary directory is removed; _clone is next.
TruncateRm(c) ==
    /\ At(c, "truncRm")
    /\ UNCHANGED <<table, method, arg, dbOps>>
    /\ UNCHANGED notDb
    /\ dirs' = [dirs EXCEPT ![Temp(Top(c).t)] = -1]
    /\ Awaits(c, "truncCloned", Frame("_clone", Top(c).t, Temp(Top(c).t)))

\* truncate: _clone has returned; this.close({table: toTable}) is next.
TruncateCloned(c) ==
    /\ At(c, "truncCloned")
    /\ UNCHANGED <<table, dirs, method, arg, dbOps>>
    /\ UNCHANGED notDb
    /\ Awaits(c, "truncClosed", Frame("close", Temp(Top(c).t), -1))

\* truncate: the clone is closed; this._drop(query) is next.
TruncateClosed(c) ==
    /\ At(c, "truncClosed")
    /\ UNCHANGED <<table, dirs, method, arg, dbOps>>
    /\ UNCHANGED notDb
    /\ Awaits(c, "truncDropped", Frame("_drop", Top(c).t, -1))

\* truncate: the table is dropped; fs.rename of the temporary directory to
\* the table's is awaited.
TruncateDropped(c) ==
    /\ At(c, "truncDropped")
    /\ UNCHANGED <<table, dirs, method, arg, dbOps>>
    /\ UNCHANGED notDb
    /\ GoesTo(c, Goto(frames[c], "truncRename"))

\* truncate: fs.rename has ended; it fails without the temporary directory
\* and over a table directory.  this.open(query) is next.
TruncateRenamed(c) ==
    /\ At(c, "truncRename")
    /\ UNCHANGED <<table, method, arg, dbOps>>
    /\ UNCHANGED notDb
    /\ IF dirs[Temp(Top(c).t)] < 0 \/ dirs[Top(c).t] >= 0
       THEN /\ UNCHANGED dirs
            /\ Throws(c, "rename failed")
       ELSE /\ dirs' = [dirs EXCEPT ![Top(c).t] = dirs[Temp(Top(c).t)],
                                    ![Temp(Top(c).t)] = -1]
            /\ Awaits(c, "return", Frame("open", Top(c).t, -1))

\* select, insert, update, delete on a table of the map: the method of the
\* instance is awaited; an instance that is not open throws.
TableInstance(c) ==
    /\ At(c, "tableInstance")
    /\ UNCHANGED <<table, method, arg, dbOps>>
    /\ UNCHANGED notDb
    /\ IF table[Top(c).t] = "opened"
       THEN /\ dirs' = [dirs EXCEPT
                           ![Top(c).t] = CASE method[c] = "insert" -> 1
                                           [] method[c] = "delete" -> 0
                                           [] OTHER -> @]
            /\ GoesTo(c, Pop(frames[c]))
       ELSE /\ UNCHANGED dirs
            /\ Throws(c, "Table closed")

\* select, insert, update, delete on a name the map does not hold:
\* await this._checkTable(query.table), which throws.
CheckTable(c) ==
    /\ At(c, "_checkTable")
    /\ UNCHANGED <<table, dirs, method, arg, dbOps>>
    /\ UNCHANGED notDb
    /\ Throws(c, _checkTable(Top(c).t))

\* closeAll: this.close({table}) is called for every key of the map, and
\* with monitoring enabled each call goes through the wrapper, which makes
\* its monRec (ids in the order of the names) before the first await.
\* The frame keeps the keys and the first id.
CloseAll(c) ==
    /\ At(c, "closeAll")
    /\ UNCHANGED <<table, dirs, method, arg, dbOps>>
    /\ UNCHANGED notDb
    /\ \E K \in {{n \in Names : table[n] # "none"}} :
          IF K = {}
          THEN GoesTo(c, Pop(frames[c]))
          ELSE /\ frames' = [frames EXCEPT
                                ![c][Len(frames[c])] =
                                    [pc |-> "closingAll", t |-> K,
                                     to |-> IF monitoringEnabled
                                            THEN monitoringId ELSE 0,
                                     mon |-> Top(c).mon]]
               /\ monitoringId' = IF monitoringEnabled
                                  THEN monitoringId + Cardinality(K)
                                  ELSE monitoringId
               /\ monRows' =
                     IF monitoringEnabled /\ monTableInstance(table)
                     THEN monRows \cup
                            {[id |-> i, error |-> "", timeEnd |-> 0] :
                               i \in monitoringId..
                                       (monitoringId + Cardinality(K) - 1)}
                     ELSE monRows
               /\ UNCHANGED <<error, monitoringEnabled, dbTableLockMap,
                              lockQueues, pcD>>

\* closeAll: one of the close calls goes on; Promise.all ends with the last.
ClosingAll(c) ==
    /\ At(c, "closingAll")
    /\ UNCHANGED <<table, dirs, method, arg, dbOps>>
    /\ UNCHANGED notDb
    /\ \E R \in {{n \in Top(c).t : table[n] # "none"}} :
          IF R = {}
          THEN GoesTo(c, Pop(frames[c]))
          ELSE \E n \in R :
                 GoesTo(c, Append(frames[c],
                     [Frame("close", n, -1) EXCEPT
                         !.mon = IF Top(c).to = 0 THEN 0
                                 ELSE Top(c).to +
                                      Cardinality({k \in Top(c).t : k < n})]))

\* setMonitoring({enable}), called while no other call runs.  Enabling
\* makes the monitoring table anew, a memory table, through create; disabling
\* closes it.
setMonitoring(enable) ==
    /\ \A c \in Calls : pcD[c] = "idle"
    /\ dbOps < MaxDbOps
    /\ dbOps' = dbOps + 1
    /\ monitoringId' = IF monitoringId = 0 THEN 1 ELSE monitoringId
    /\ IF enable /\ ~monitoringEnabled
       THEN \E l \in {_tableLock(monitoringTable)} :
              /\ table' = [table EXCEPT ![monitoringTable] = "opened"]
              /\ dbTableLockMap' = l.map
              /\ lockQueues' = l.queues
              /\ monRows' = {}
              /\ monitoringEnabled' = TRUE
       ELSE IF ~enable /\ monitoringEnabled
            THEN /\ table' = [table EXCEPT ![monitoringTable] = "none"]
                 /\ monRows' = {}
                 /\ monitoringEnabled' = FALSE
                 /\ UNCHANGED <<dbTableLockMap, lockQueues>>
            ELSE UNCHANGED <<table, dbTableLockMap, lockQueues, monRows,
                             monitoringEnabled>>
    /\ UNCHANGED <<dirs, pcD, method, arg, frames, error>>
    /\ UNCHANGED notDb

\* The database is open, table 1 is open and holds a row.
DbInit ==
    /\ table = [n \in Names |-> IF n = 1 THEN "opened" ELSE "none"]
    /\ dirs = [n \in Names |-> IF n = 1 THEN 1 ELSE -1]
    /\ dbTableLockMap = [n \in Names |-> 0]
    /\ lockQueues = <<>>
    /\ pcD = [c \in Calls |-> "idle"]
    /\ method = [c \in Calls |-> ""]
    /\ arg = [c \in Calls |-> 0]
    /\ frames = [c \in Calls |-> <<>>]
    /\ error = [c \in Calls |-> ""]
    /\ dbOps = 0
    /\ monitoringEnabled = FALSE
    /\ monitoringId = 0
    /\ monRows = {}

DbNext ==
    \/ \E c \in Calls, t \in Tables :
          \E m \in {"create", "drop", "dropIn", "truncate"} :
             Call(c, m, t, -1)
    \/ \E c \in Calls, t \in Tables :
          \E to \in Tables \ {t} : Call(c, "clone", t, to)
    \/ \E c \in Calls : Create(c)
    \/ \E c \in Calls : Return(c)
    \/ \E c \in Calls : Open(c)
    \/ \E c \in Calls : Opening(c)
    \/ \E c \in Calls : Close(c)
    \/ \E c \in Calls : Closing(c)
    \/ \E c \in Calls : Drop(c)
    \/ \E c \in Calls : DropRemoved(c)
    \/ \E c \in Calls : DropIn(c)
    \/ \E c \in Calls : Clone(c)
    \/ \E c \in Calls : Cloning(c)
    \/ \E c \in Calls : Truncate(c)
    \/ \E c \in Calls : TruncateRm(c)
    \/ \E c \in Calls : TruncateCloned(c)
    \/ \E c \in Calls : TruncateClosed(c)
    \/ \E c \in Calls : TruncateDropped(c)
    \/ \E c \in Calls : TruncateRenamed(c)

\* One caller, which also opens and closes tables, reads and writes rows
\* and turns the monitoring on and off.
DbSeqNext ==
    \/ \E t \in Tables :
          \E m \in {"create", "drop", "dropIn", "truncate", "open", "close",
                     "closeAll"} \cup RowMethods :
             Call(1, m, t, -1)
    \/ \E t \in Tables : \E to \in Tables \ {t} : Call(1, "clone", t, to)
    \/ \E enable \in BOOLEAN : setMonitoring(enable)
    \/ Create(1)
    \/ Return(1)
    \/ Open(1)
    \/ Opening(1)
    \/ Close(1)
    \/ Closing(1)
    \/ Drop(1)
    \/ DropRemoved(1)
    \/ DropIn(1)
    \/ Clone(1)
    \/ Cloning(1)
    \/ Truncate(1)
    \/ TruncateRm(1)
    \/ TruncateCloned(1)
    \/ TruncateClosed(1)
    \/ TruncateDropped(1)
    \/ TruncateRenamed(1)
    \/ TableInstance(1)
    \/ CheckTable(1)
    \/ CloseAll(1)
    \/ ClosingAll(1)

\* ================================================== the table instances
\* The table map of JembaDb (src/unnamed/part_000) with the instances it
\* holds told apart.  A caller is at a position of open, create or close;
\* unlock runs beside the callers, with one close() for each key of the
\* table map.
NoInst == 0

NewInstance(t) == [t |-> t, opened |-> FALSE, closed |-> FALSE]

\* tableExists({table: t}).
tableExistsMap(t) == tableMap[t] # NoInst \/ tableDir[t] # "none"

\* close() of a table instance begins: opened = false and closed = true
\* before its first await; a closed instance returns at once.
instClose(is, i) ==
    IF is[i].closed THEN is
    ELSE [is EXCEPT ![i].opened = FALSE, ![i].closed = TRUE]

\* The call of c ends, with the error msg if it throws; create returns its
\* table lock in its finally, and the first waiter goes on.
MapEnds(c, msg) ==
    /\ errT' = [errT EXCEPT ![c] = msg]
    /\ IF methodT[c] = "create" /\ pcT[c] # "createLock"
       THEN /\ tableLocks' = [tableLocks EXCEPT ![argT[c]] = LockRet(@)]
            /\ pcT' = [d \in Procs |->
                         IF d = c THEN "idle"
                         ELSE IF d \in Woken(tableLocks[argT[c]])
                              THEN "createExists" ELSE pcT[d]]
       ELSE /\ pcT' = [pcT EXCEPT ![c] = "idle"]
            /\ UNCHANGED tableLocks

\* open({table: t}), create({table: t}) or close({table: t}) is called:
\* _checkOpened, then the first await.  create gets the lock of the table
\* or waits for it.
MapCall(c, m, t) ==
    /\ pcT[c] = "idle"
    /\ mapOps < MaxDbOps
    /\ mapOps' = mapOps + 1
    /\ methodT' = [methodT EXCEPT ![c] = m]
    /\ argT' = [argT EXCEPT ![c] = t]
    /\ instT' = [instT EXCEPT ![c] = NoInst]
    /\ IF ~dbOpened
       THEN /\ errT' = [errT EXCEPT ![c] = "Database closed"]
            /\ UNCHANGED <<pcT, tableLocks>>
       ELSE /\ errT' = [errT EXCEPT ![c] = ""]
            /\ IF m = "create"
               THEN IF tableLocks[t].freed
                    THEN /\ tableLocks' = [tableLocks EXCEPT ![t].freed = FALSE]
                         /\ pcT' = [pcT EXCEPT ![c] = "createExists"]
                    ELSE /\ tableLocks' = [tableLocks EXCEPT
                                              ![t].waitingQueue =
                                                  Append(@, <<c, TRUE>>)]
                         /\ pcT' = [pcT EXCEPT ![c] = "createLock"]
               ELSE /\ pcT' = [pcT EXCEPT
                                 ![c] = IF m = "open" THEN "openExists"
                                        ELSE "closeExists"]
                    /\ UNCHANGED tableLocks
    /\ UNCHANGED <<dbOpened, tableMap, insts, tableDir, pcU, uClose, uInst>>
    /\ UNCHANGED notMap

\* create: tableExists has answered; this.open(query) with create = true.
MapCreate(c) ==
    /\ pcT[c] = "createExists"
    /\ IF tableExistsMap(argT[c]) THEN MapEnds(c, "already exists")
       ELSE IF ~dbOpened THEN MapEnds(c, "Database closed")
       ELSE /\ pcT' = [pcT EXCEPT ![c] = "openExists"]
            /\ UNCHANGED <<errT, tableLocks>>
    /\ UNCHANGED <<dbOpened, tableMap, insts, tableDir, methodT, argT, instT,
                   pcU, uClose, uInst, mapOps>>
    /\ UNCHANGED notMap

\* open: new instance, this.table.set(t, instance), and the open() of the
\* instance is awaited.
MapSetsNew(c) ==
    /\ insts' = Append(insts, NewInstance(argT[c]))
    /\ tableMap' = [tableMap EXCEPT ![argT[c]] = Len(insts) + 1]
    /\ instT' = [instT EXCEPT ![c] = Len(insts) + 1]
    /\ pcT' = [pcT EXCEPT ![c] = "opening"]
    /\ UNCHANGED <<errT, tableLocks>>

\* open: tableExists has answered.  A table without an opened instance in
\* the map gets a new one, after _getTableType when the table exists.
MapOpen(c) ==
    /\ pcT[c] = "openExists"
    /\ IF tableExistsMap(argT[c]) \/ methodT[c] = "create"
       THEN IF tableMap[argT[c]] = NoInst \/ ~insts[tableMap[argT[c]]].opened
            THEN IF tableExistsMap(argT[c])
                 THEN /\ pcT' = [pcT EXCEPT ![c] = "openType"]
                      /\ UNCHANGED <<tableMap, insts, instT, errT, tableLocks>>
                 ELSE MapSetsNew(c)
            ELSE /\ MapEnds(c, "")
                 /\ UNCHANGED <<tableMap, insts, instT>>
       ELSE /\ MapEnds(c, "does not exist")
            /\ UNCHANGED <<tableMap, insts, instT>>
    /\ UNCHANGED <<dbOpened, tableDir, methodT, argT, pcU, uClose, uInst,
                   mapOps>>
    /\ UNCHANGED notMap

\* open: _getTableType has answered.
MapOpenType(c) ==
    /\ pcT[c] = "openType"
    /\ MapSetsNew(c)
    /\ UNCHANGED <<dbOpened, tableDir, methodT, argT, pcU, uClose, uInst,
                   mapOps>>
    /\ UNCHANGED notMap

\* open: the open() of the instance has ended.  It makes the directory
\* that is missing; on a table whose state is not '1' it closes the
\* instance and throws.
MapOpening(c) ==
    /\ pcT[c] = "opening"
    /\ IF tableDir[argT[c]] = "corrupted"
       THEN /\ insts' = [insts EXCEPT ![instT[c]].closed = TRUE]
            /\ UNCHANGED tableDir
            /\ MapEnds(c, "table open throws")
       ELSE /\ insts' = [insts EXCEPT ![instT[c]].opened = TRUE]
            /\ tableDir' = [tableDir EXCEPT ![argT[c]] = "ok"]
            /\ MapEnds(c, "")
    /\ UNCHANGED <<dbOpened, tableMap, methodT, argT, instT, pcU, uClose,
                   uInst, mapOps>>
    /\ UNCHANGED notMap

\* close: tableExists has answered; the close() of the instance in the
\* map begins and is awaited.
MapClose(c) ==
    /\ pcT[c] = "closeExists"
    /\ IF tableExistsMap(argT[c])
       THEN IF tableMap[argT[c]] # NoInst
            THEN /\ insts' = instClose(insts, tableMap[argT[c]])
                 /\ instT' = [instT EXCEPT ![c] = tableMap[argT[c]]]
                 /\ pcT' = [pcT EXCEPT ![c] = "closing"]
                 /\ UNCHANGED <<errT, tableLocks>>
            ELSE /\ MapEnds(c, "")
                 /\ UNCHANGED <<insts, instT>>
       ELSE /\ MapEnds(c, "does not exist")
            /\ UNCHANGED <<insts, instT>>
    /\ UNCHANGED <<dbOpened, tableMap, tableDir, methodT, argT, pcU, uClose,
                   uInst, mapOps>>
    /\ UNCHANGED notMap

\* close: the close() of the instance has ended; this.table.delete(t).
MapClosing(c) ==
    /\ pcT[c] = "closing"
    /\ tableMap' = [tableMap EXCEPT ![argT[c]] = NoInst]
    /\ MapEnds(c, "")
    /\ UNCHANGED <<dbOpened, insts, tableDir, methodT, argT, instT, pcU,
                   uClose, uInst, mapOps>>
    /\ UNCHANGED notMap

\* unlock() is called on the open database: closeAll calls close() for
\* each key of the table map, and each close awaits tableExists.
Unlock ==
    /\ pcU = "idle" /\ dbOpened
    /\ pcU' = "closeAll"
    /\ uClose' = [t \in Tables |->
                     IF tableMap[t] # NoInst THEN "closeExists" ELSE "none"]
    /\ UNCHANGED <<dbOpened, tableMap, insts, tableDir, pcT, methodT, argT,
                   instT, errT, tableLocks, uInst, mapOps>>
    /\ UNCHANGED notMap

\* The close({table: t}) of closeAll after tableExists.
UnlockClose(t) ==
    /\ pcU = "closeAll" /\ uClose[t] = "closeExists"
    /\ IF tableExistsMap(t)
       THEN IF tableMap[t] # NoInst
            THEN /\ insts' = instClose(insts, tableMap[t])
                 /\ uInst' = [uInst EXCEPT ![t] = tableMap[t]]
                 /\ uClose' = [uClose EXCEPT ![t] = "closing"]
                 /\ pcU' = pcU
            ELSE /\ uClose' = [uClose EXCEPT ![t] = "done"]
                 /\ UNCHANGED <<insts, uInst, pcU>>
       ELSE /\ pcU' = "failed"
            /\ UNCHANGED <<insts, uInst, uClose>>
    /\ UNCHANGED <<dbOpened, tableMap, tableDir, pcT, methodT, argT, instT,
                   errT, tableLocks, mapOps>>
    /\ UNCHANGED notMap

\* The close({table: t}) of closeAll after the close() of the instance.
UnlockClosing(t) ==
    /\ pcU = "closeAll" /\ uClose[t] = "closing"
    /\ tableMap' = [tableMap EXCEPT ![t] = NoInst]
    /\ uClose' = [uClose EXCEPT ![t] = "done"]
    /\ UNCHANGED <<dbOpened, insts, tableDir, pcT, methodT, argT, instT,
                   errT, tableLocks, pcU, uInst, mapOps>>
    /\ UNCHANGED notMap

\* closeAll has returned; releaseFileLock is awaited.
UnlockRelease ==
    /\ pcU = "closeAll"
    /\ \A t \in Tables : uClose[t] \in {"none", "done"}
    /\ pcU' = "release"
    /\ UNCHANGED <<dbOpened, tableMap, insts, tableDir, pcT, methodT, argT,
                   instT, errT, tableLocks, uClose, uInst, mapOps>>
    /\ UNCHANGED notMap

\* The file lock is released: this.opened = false, and unlock returns.
UnlockReturns ==
    /\ pcU = "release"
    /\ dbOpened' = FALSE
    /\ pcU' = "done"
    /\ UNCHANGED <<tableMap, insts, tableDir, pcT, methodT, argT, instT,
                   errT, tableLocks, uClose, uInst, mapOps>>
    /\ UNCHANGED notMap

MapInit ==
    /\ dbOpened = TRUE
    /\ tableMap = [t \in Tables |-> NoInst]
    /\ insts = <<>>
    /\ tableDir = [t \in Tables |-> "none"]
    /\ pcT = [c \in Procs |-> "idle"]
    /\ methodT = [c \in Procs |-> ""]
    /\ argT = [c \in Procs |-> 1]
    /\ instT = [c \in Procs |-> NoInst]
    /\ errT = [c \in Procs |-> ""]
    /\ tableLocks = [t \in Tables |-> NewLockQueue]
    /\ pcU = "idle"
    /\ uClose = [t \in Tables |-> "none"]
    /\ uInst = [t \in Tables |-> NoInst]
    /\ mapOps = 0

\* The table directories the database is opened on: none, a table, or a
\* table whose state file is '0'.
MapDirInit ==
    /\ dbOpened = TRUE
    /\ tableMap = [t \in Tables |-> NoInst]
    /\ insts = <<>>
    /\ tableDir \in [Tables -> {"none", "ok", "corrupted"}]
    /\ pcT = [c \in Procs |-> "idle"]
    /\ methodT = [c \in Procs |-> ""]
    /\ argT = [c \in Procs |-> 1]
    /\ instT = [c \in Procs |-> NoInst]
    /\ errT = [c \in Procs |-> ""]
    /\ tableLocks = [t \in Tables |-> NewLockQueue]
    /\ pcU = "idle"
    /\ uClose = [t \in Tables |-> "none"]
    /\ uInst = [t \in Tables |-> NoInst]
    /\ mapOps = 0

MapNext ==
    \/ \E c \in Procs, m \in {"open", "create", "close"}, t \in Tables :
          MapCall(c, m, t)
    \/ \E c \in Procs : MapCreate(c)
    \/ \E c \in Procs : MapOpen(c)
    \/ \E c \in Procs : MapOpenType(c)
    \/ \E c \in Procs : MapOpening(c)
    \/ \E c \in Procs : MapClose(c)
    \/ \E c \in Procs : MapClosing(c)
    \/ Unlock
    \/ \E t \in Tables : UnlockClose(t)
    \/ \E t \in Tables : UnlockClosing(t)
    \/ UnlockRelease
    \/ UnlockReturns

\* ============================================ open() of the sharded table
\* open() and close() of one ShardedTable instance (src/src/ShardedTable.js)
\* on a table directory.  An error is the sequence of the parts of its
\* message: <<>> is no error, <<"Open table", cause>> the error the catch
\* of open throws, <<"TypeError">> the error of a call on null.
MaxOpenCalls == 3

NoError == <<>>

\* The causes open() throws before _loadMeta is called.
EarlyCauses ==
    {"tablePath required", "Wrong table type", "Table type file not found",
     "Table corrupted"}

OpenQueries == [tablePath : BOOLEAN, typeCompatMode : BOOLEAN]

TableDirs ==
    {d \in [exists : BOOLEAN, type : {"none", "sharded", "basic"},
            state : {"none", "0", "1"}] :
        ~d.exists => (d.type = "none" /\ d.state = "none")}

\* The fields of the constructor.
NewShardedTable ==
    [opening |-> FALSE, opened |-> FALSE, closed |-> FALSE,
     metaTable |-> FALSE, shardListTable |-> FALSE]

\* this.recreate and this.autoRepair are set nowhere in the class.
recreate == FALSE

autoRepair == FALSE

\* The call of c ends: the finally of open resets this.opening.
OpenEnds(c, inst, err) ==
    /\ instO' = [inst EXCEPT !.opening = FALSE]
    /\ errO' = [errO EXCEPT ![c] = err]
    /\ pcO' = [pcO EXCEPT ![c] = "idle"]

\* The catch of open with the error cause: await this.close().  close
\* returns at once on a closed instance; else it sets opened = false and
\* closed = true and awaits the lock of the instance.
OpenCatch(c, inst, cause) ==
    /\ causeO' = [causeO EXCEPT ![c] = cause]
    /\ errO' = errO
    /\ IF inst.closed
       THEN /\ instO' = inst
            /\ pcO' = [pcO EXCEPT ![c] = "throw"]
       ELSE /\ instO' = [inst EXCEPT !.opened = FALSE, !.closed = TRUE]
            /\ pcO' = [pcO EXCEPT ![c] = "closeTables"]

\* open(query) is called: the checks before the first await.  'Table open
\* in progress' is thrown outside the try block.
OpenCall(c, query) ==
    /\ pcO[c] = "idle"
    /\ callsO < MaxOpenCalls
    /\ callsO' = callsO + 1
    /\ queryO' = [queryO EXCEPT ![c] = query]
    /\ IF instO.opening
       THEN /\ errO' = [errO EXCEPT ![c] = <<"Table open in progress">>]
            /\ UNCHANGED <<pcO, instO, causeO>>
       ELSE \E inst \in {[instO EXCEPT !.opening = TRUE]} :
               IF inst.opened
               THEN OpenCatch(c, inst, "Table has already been opened")
               ELSE IF inst.closed
               THEN OpenCatch(c, inst, "Table instance has been destroyed")
               ELSE IF ~query.tablePath
               THEN OpenCatch(c, inst, "tablePath required")
               ELSE /\ pcO' = [pcO EXCEPT ![c] = "pathExists"]
                    /\ causeO' = [causeO EXCEPT ![c] = ""]
                    /\ errO' = [errO EXCEPT ![c] = NoError]
                    /\ instO' = inst
    /\ UNCHANGED dirO
    /\ UNCHANGED notOpen

\* pathExists(tablePath) has answered: a missing directory is made, with
\* the type file and the state file '1'.
OpenPathExists(c) ==
    /\ pcO[c] = "pathExists"
    /\ IF dirO.exists
       THEN /\ pcO' = [pcO EXCEPT ![c] = "type"]
            /\ UNCHANGED dirO
       ELSE /\ pcO' = [pcO EXCEPT ![c] = "state"]
            /\ dirO' = [exists |-> TRUE, type |-> "sharded", state |-> "1"]
    /\ UNCHANGED <<queryO, instO, causeO, errO, callsO>>
    /\ UNCHANGED notOpen

\* The type file of a directory that exists is checked.
OpenType(c) ==
    /\ pcO[c] = "type"
    /\ IF dirO.type = "none"
       THEN IF queryO[c].typeCompatMode
            THEN /\ dirO' = [dirO EXCEPT !.type = "sharded"]
                 /\ pcO' = [pcO EXCEPT ![c] = "state"]
                 /\ UNCHANGED <<instO, causeO, errO>>
            ELSE /\ OpenCatch(c, instO, "Table type file not found")
                 /\ UNCHANGED dirO
       ELSE IF dirO.type # "sharded"
       THEN /\ OpenCatch(c, instO, "Wrong table type")
            /\ UNCHANGED dirO
       ELSE /\ pcO' = [pcO EXCEPT ![c] = "state"]
            /\ UNCHANGED <<dirO, instO, causeO, errO>>
    /\ UNCHANGED <<queryO, callsO>>
    /\ UNCHANGED notOpen

\* The state file is read: _loadMeta is called on the state '1', 'Table
\* corrupted' is thrown on any other.
OpenState(c) ==
    /\ pcO[c] = "state"
    /\ IF recreate \/ dirO.state = "1"
       THEN /\ pcO' = [pcO EXCEPT ![c] = "load"]
            /\ instO' = [instO EXCEPT !.metaTable = TRUE]
            /\ UNCHANGED <<causeO, errO>>
       ELSE IF autoRepair
       THEN /\ pcO' = [pcO EXCEPT ![c] = "load"]
            /\ instO' = [instO EXCEPT !.metaTable = TRUE]
            /\ UNCHANGED <<causeO, errO>>
       ELSE OpenCatch(c, instO, "Table corrupted")
    /\ UNCHANGED <<queryO, dirO, callsO>>
    /\ UNCHANGED notOpen

\* _loadMeta ends: the open of metaTable throws, or shardListTable is made
\* and its open or its select throws, or the meta tables are loaded and
\* open returns with opened = true.
OpenLoad(c) ==
    /\ pcO[c] = "load"
    /\ \E outcome \in {"loaded", "meta throws", "shards throw"} :
          IF outcome = "loaded"
          THEN /\ OpenEnds(c, [instO EXCEPT !.shardListTable = TRUE,
                                            !.opened = TRUE], NoError)
               /\ UNCHANGED causeO
          ELSE IF outcome = "meta throws"
          THEN OpenCatch(c, instO, "load")
          ELSE OpenCatch(c, [instO EXCEPT !.shardListTable = TRUE], "load")
    /\ UNCHANGED <<queryO, dirO, callsO>>
    /\ UNCHANGED notOpen

\* close() called by the catch has the lock: this.metaTable.close() and
\* this.shardListTable.close().  A call on null throws a TypeError, the
\* close of a table that is not loaded returns or throws; the error of
\* close leaves the catch in place of the error 'Open table'.
OpenCloseTables(c) ==
    /\ pcO[c] = "closeTables"
    /\ IF ~instO.metaTable \/ ~instO.shardListTable
       THEN OpenEnds(c, instO, <<"TypeError">>)
       ELSE \E returns \in BOOLEAN :
               OpenEnds(c, instO,
                        IF returns THEN <<"Open table", causeO[c]>>
                        ELSE <<"close throws">>)
    /\ UNCHANGED <<queryO, dirO, causeO, callsO>>
    /\ UNCHANGED notOpen

\* close() has returned at once: the catch throws 'Open table'.
OpenThrow(c) ==
    /\ pcO[c] = "throw"
    /\ OpenEnds(c, instO, <<"Open table", causeO[c]>>)
    /\ UNCHANGED <<queryO, dirO, causeO, callsO>>
    /\ UNCHANGED notOpen

OpenInit ==
    /\ pcO = [c \in Procs |-> "idle"]
    /\ queryO = [c \in Procs |-> [tablePath |-> TRUE, typeCompatMode |-> FALSE]]
    /\ dirO = [exists |-> FALSE, type |-> "none", state |-> "none"]
    /\ instO = NewShardedTable
    /\ causeO = [c \in Procs |-> ""]
    /\ errO = [c \in Procs |-> NoError]
    /\ callsO = 0

\* A new instance on any table directory.
OpenDirInit ==
    /\ pcO = [c \in Procs |-> "idle"]
    /\ queryO = [c \in Procs |-> [tablePath |-> TRUE, typeCompatMode |-> FALSE]]
    /\ dirO \in TableDirs
    /\ instO = NewShardedTable
    /\ causeO = [c \in Procs |-> ""]
    /\ errO = [c \in Procs |-> NoError]
    /\ callsO = 0

OpenNext ==
    \/ \E c \in Procs, query \in OpenQueries : OpenCall(c, query)
    \/ \E c \in Procs : OpenPathExists(c)
    \/ \E c \in Procs : OpenType(c)
    \/ \E c \in Procs : OpenState(c)
    \/ \E c \in Procs : OpenLoad(c)
    \/ \E c \in Procs : OpenCloseTables(c)
    \/ \E c \in Procs : OpenThrow(c)

\* ================================================ the monitoring wrapper
\* A method of monMethods (setMonitoring, src/unnamed/part_000) around its
\* original method.  An outcome is what a call gives its caller: the value
\* it returns or the error it throws.  insert() of the monitoring table, a
\* memory table, returns or throws.
MaxWrapOps == 3

Returned(v) == [throws |-> FALSE, value |-> v]

Thrown(e) == [throws |-> TRUE, value |-> e]

\* The outcomes of the original methods.
Outcomes == {Returned(1), Returned(2), Thrown("orig")}

NoOutcome == Returned(0)

\* monTableInstance of the wrapper: the instance of the monitoring table
\* in the table map, when it is not closed.
monTableInstanceW == monInstW = "opened"

\* The wrapper is called with a query on which the original method will
\* end with orig: with monitoring enabled it makes the monRec with the id
\* this.monitoringId++ and awaits its insert.
WrapCall(c, orig) ==
    /\ pcW[c] = "idle"
    /\ wrapOps < MaxWrapOps
    /\ wrapOps' = wrapOps + 1
    /\ origW' = [origW EXCEPT ![c] = orig]
    /\ outW' = [outW EXCEPT ![c] = NoOutcome]
    /\ IF enabledW
       THEN /\ monRecW' = [monRecW EXCEPT ![c] = monitoringIdW]
            /\ monitoringIdW' = monitoringIdW + 1
            /\ pcW' = [pcW EXCEPT
                         ![c] = IF monTableInstanceW THEN "insert" ELSE "orig"]
       ELSE /\ monRecW' = [monRecW EXCEPT ![c] = 0]
            /\ pcW' = [pcW EXCEPT ![c] = "orig"]
            /\ UNCHANGED monitoringIdW
    /\ UNCHANGED <<enabledW, monInstW, monRowsW>>
    /\ UNCHANGED notWrap

\* insert({rows: [monRec]}) has ended; its error is caught, and the
\* original method is called.
WrapInsert(c) ==
    /\ pcW[c] = "insert"
    /\ \E fails \in BOOLEAN :
          monRowsW' = IF fails \/ ~monTableInstanceW THEN monRowsW
                      ELSE monRowsW \cup
                              {[id |-> monRecW[c], error |-> "", timeEnd |-> 0]}
    /\ pcW' = [pcW EXCEPT ![c] = "orig"]
    /\ UNCHANGED <<origW, outW, monRecW, enabledW, monInstW, monitoringIdW,
                   wrapOps>>
    /\ UNCHANGED notWrap

\* The original method has ended.  The finally of the wrapper awaits
\* insert({replace: true, rows: [monRec]}) when monitoring is enabled and
\* the monitoring table has an instance; else the caller gets the outcome
\* of the original method.
WrapOrig(c) ==
    /\ pcW[c] = "orig"
    /\ IF enabledW /\ monTableInstanceW
       THEN /\ pcW' = [pcW EXCEPT ![c] = "replace"]
            /\ UNCHANGED outW
       ELSE /\ pcW' = [pcW EXCEPT ![c] = "idle"]
            /\ outW' = [outW EXCEPT ![c] = origW[c]]
    /\ UNCHANGED <<origW, monRecW, enabledW, monInstW, monitoringIdW,
                   monRowsW, wrapOps>>
    /\ UNCHANGED notWrap

\* The insert of the finally has ended.  It is in no try block: its error
\* leaves the finally, in place of the outcome of the original method.
WrapReplace(c) ==
    /\ pcW[c] = "replace"
    /\ \E fails \in BOOLEAN :
          IF fails
          THEN /\ outW' = [outW EXCEPT ![c] = Thrown("insert")]
               /\ UNCHANGED monRowsW
          ELSE /\ outW' = [outW EXCEPT ![c] = origW[c]]
               /\ monRowsW' =
                     IF ~monTableInstanceW THEN monRowsW
                     ELSE {r \in monRowsW : r.id # monRecW[c]}
                             \cup {[id |-> monRecW[c],
                                    error |-> IF origW[c].throws
                                              THEN origW[c].value ELSE "",
                                    timeEnd |-> 1]}
    /\ pcW' = [pcW EXCEPT ![c] = "idle"]
    /\ UNCHANGED <<origW, monRecW, enabledW, monInstW, monitoringIdW,
                   wrapOps>>
    /\ UNCHANGED notWrap

\* The instance of the monitoring table is closed by a close or closeAll,
\* and its rows are gone; an open makes a new one.
WrapMonTable ==
    /\ wrapOps < MaxWrapOps
    /\ wrapOps' = wrapOps + 1
    /\ IF monInstW = "opened"
       THEN monInstW' = "closed" /\ monRowsW' = {}
       ELSE monInstW' = "opened" /\ UNCHANGED monRowsW
    /\ UNCHANGED <<pcW, origW, outW, monRecW, enabledW, monitoringIdW>>
    /\ UNCHANGED notWrap

\* setMonitoring({enable}) has ended: enabling makes the monitoring table.
WrapSetMonitoring(enable) ==
    /\ wrapOps < MaxWrapOps
    /\ wrapOps' = wrapOps + 1
    /\ enable # enabledW
    /\ enabledW' = enable
    /\ IF enable
       THEN monInstW' = "opened" /\ monRowsW' = {}
       ELSE UNCHANGED <<monInstW, monRowsW>>
    /\ UNCHANGED <<pcW, origW, outW, monRecW, monitoringIdW>>
    /\ UNCHANGED notWrap

\* Monitoring has been enabled.
WrapInit ==
    /\ pcW = [c \in Procs |-> "idle"]
    /\ origW = [c \in Procs |-> NoOutcome]
    /\ outW = [c \in Procs |-> NoOutcome]
    /\ monRecW = [c \in Procs |-> 0]
    /\ enabledW = TRUE
    /\ monInstW = "opened"
    /\ monitoringIdW = 1
    /\ monRowsW = {}
    /\ wrapOps = 0

WrapNext ==
    \/ \E c \in Procs, orig \in Outcomes : WrapCall(c, orig)
    \/ \E c \in Procs : WrapInsert(c)
    \/ \E c \in Procs : WrapOrig(c)
    \/ \E c \in Procs : WrapReplace(c)
    \/ WrapMonTable
    \/ \E enable \in BOOLEAN : WrapSetMonitoring(enable)

\* ------------------------------------------------------ the specifications
Init == RowsInit /\ ShardInit /\ DbInit /\ FileInit /\ LockInit /\ MapInit /\ OpenInit /\ WrapInit

LoadFileInit == RowsInit /\ ShardInit /\ DbInit /\ CutFileInit /\ LockInit /\ MapInit /\ OpenInit /\ WrapInit

Next == RowsNext

vars == <<rowVars, shardVars, dbVars, fileVars, lockVars, mapVars, openVars,
            wrapVars>>

\* The row storage engine.
Spec == Init /\ [][Next]_vars

\* The sharded table.
SpecShard == Init /\ [][ShardNext]_vars

\* The sharded table under the calls of one caller.
SpecShardSeq == Init /\ [][ShardSeqNext]_vars

\* The sharded table under inserts of rows with shard '___auto'.
SpecAutoShard == Init /\ [][AutoShardNext]_vars

\* The database under concurrent create, drop, truncate and clone.
SpecDb == Init /\ [][DbNext]_vars

\* The database under one caller.
SpecDbSeq == Init /\ [][DbSeqNext]_vars

\* loadFile over the files a crash in the middle of a write may leave.
SpecLoadFile == LoadFileInit /\ [][LoadFileNext]_vars

RowsSavedInit ==
    RowsInitSetRow /\ ShardInit /\ DbInit /\ FileInit /\ LockInit /\ MapInit /\ OpenInit /\ WrapInit

RowsDumpInit ==
    RowsInitFragmented /\ ShardInit /\ DbInit /\ FileInit /\ LockInit /\ MapInit /\ OpenInit /\ WrapInit

\* The row engine that starts with fragmented blocks, under setRow and
\* saveDelta.
SpecRowsDump == RowsDumpInit /\ [][RowsNextDump]_vars

DbMapInit ==
    RowsInit /\ ShardInit /\ DbInit /\ FileInit /\ LockInit /\ MapDirInit
    /\ OpenInit /\ WrapInit

\* The table map under concurrent open, create, close and unlock.
SpecDbMap == DbMapInit /\ [][MapNext]_vars

ShardedOpenInit ==
    RowsInit /\ ShardInit /\ DbInit /\ FileInit /\ LockInit /\ MapInit
    /\ OpenDirInit /\ WrapInit

\* open() of a sharded table instance on any table directory.
SpecShardedOpen == ShardedOpenInit /\ [][OpenNext]_vars

WrapperInit ==
    RowsInit /\ ShardInit /\ DbInit /\ FileInit /\ LockInit /\ MapInit
    /\ OpenInit /\ WrapInit

\* The wrapped methods with monitoring inserts that return or throw.
SpecWrapper == WrapperInit /\ [][WrapNext]_vars

\* The shard cache with calls that go on: every await of a call returns,
\* and every operation that holds a shard calls _unlockShard.
ShardLiveInit ==
    RowsInit /\ ShardsSavedInit /\ DbInit /\ FileInit /\ LockInit /\ MapInit
    /\ OpenInit /\ WrapInit

SpecShardLive ==
    ShardLiveInit /\ [][ShardLiveNext]_vars
        /\ \A p \in Procs : WF_vars(ShardStep(p))

\* The row engine in processes that stop inside saveDelta.
SpecRowsCrash == Init /\ [][RowsNextCrash]_vars

\* The row engine under setRow, saveDelta, destroy, load and loadCorrupted.
SpecRowsCorrupted == Init /\ [][RowsNextCorrupted]_vars

\* The row engine behind a first setRow, under setRow, saveDelta, getRow
\* and the eviction pass.
SpecRowsSaved == RowsSavedInit /\ [][RowsNextSaved]_vars

\* loadBlock and the unlink of saveDelta on the lock of one block file.
SpecFileLock == Init /\ [][FileLockNext]_vars

\* ------------------------------------------------------------------ claims
\* Whether block index holds row id: in its loaded rows, or, when the block
\* is not in memory, in the rows loadBlock reads from its file.
blockHolds(index, id) ==
    IF blockList[index].loaded THEN MapHas(blockList[index].rows, id)
    ELSE /\ loadFile(blockFiles, blockRowsFilePath(index)).ok
         /\ MapHas(NewMap(loadFile(blockFiles,
                                   blockRowsFilePath(index)).arr), id)

\* C1: every id of blockIndex maps to a block of blockList that contains it.
C1_BlockIndexValid ==
    \A id \in Ids :
        blockIndex[id] # 0 =>
            /\ blockIndex[id] \in DOMAIN blockList
            /\ blockHolds(blockIndex[id], id)

\* C2: getRow(id) returns the row of the most recent setRow(id) that no
\* deleteRow(id) followed, and nothing for an id never set or deleted,
\* whatever has happened to the block since.
C2_GetRowReturnsLastSet ==
    \A id \in Ids : getRowResult(id) = lastSet[id]

\* C3: when saveDelta has returned successfully and no other delta is
\* pending, load() of the files yields the in-memory blockIndex and a
\* blockList with the same block indexes and final flags.
C3_LoadEqualsMemory ==
    (pc = "done" /\ ~destroyed /\ DOMAIN deltas = {}) =>
        /\ load.blockIndex = blockIndex
        /\ DOMAIN load.blockList = DOMAIN blockList
        /\ \A b \in DOMAIN blockList :
               load.blockList[b].final = blockList[b].final

\* C4: no block with index >= lastSavedBlockIndex is final.
C4_NoFinalAtOrAboveLastSaved ==
    \A b \in DOMAIN blockList :
        blockList[b].final => b < lastSavedBlockIndex

\* C5: the block with index currentBlockIndex holds its rows in memory, and
\* addToCurrentBlock never throws 'something has gone wrong'.
C5_CurrentBlockLoaded ==
    /\ ~wentWrong
    /\ currentBlockIndex \in DOMAIN blockList =>
           blockList[currentBlockIndex].loaded

\* An eviction pass has unloaded a block while the current block holds rows.
C5_Witness ==
    /\ currentBlockIndex \in DOMAIN blockList
    /\ blockList[currentBlockIndex].rows # <<>>
    /\ \E b \in DOMAIN blockList : ~blockList[b].loaded

\* C6: once destroy() has returned, no file of the table directory changes,
\* and a pass in progress does not end with an error of its own.
C6_NoWriteAfterDestroy ==
    [][destroyed =>
           /\ diskVars' = diskVars
           /\ (pc' = "failed") => (pc = "failed" \/ SaveDeltaFails)]_vars

\* C7: a saveDelta that failed leaves its deltaStep in deltas; the delta of
\* the call in progress leaves deltas only when the call's last step is done.
C7_FailedDeltaStaysPending ==
    /\ [](pc = "failed" => saveStep \in DOMAIN deltas)
    /\ [][(saveStep \in DOMAIN deltas /\ saveStep \notin DOMAIN deltas')
              => pc' = "done"]_vars

\* A saveDelta failed after it had written journal records.
C7_Witness ==
    /\ pc = "failed"
    /\ saveStep \in DOMAIN deltas
    /\ blockindex1.recs # <<>>

\* The sum of count over the shard records of shardList.
RECURSIVE SumCount(_, _)
SumCount(list, S) ==
    IF S = {} THEN 0
    ELSE LET shard == CHOOSE x \in S : TRUE
         IN list[shard] + SumCount(list, S \ {shard})

\* C8: the counts of the shard records add up to infoShard.count, in memory
\* during insert and in what _loadMeta reads when the table is opened again,
\* also after an insert that was interrupted between its two _saveShardRec
\* calls.
C8_CountsAddUp ==
    SumCount(shardList, DOMAIN shardList) = infoShard

C10_EvictionSparesLocked ==
    /\ [](\A p \in Procs : pcS[p] = "use" => curShard[p] \in openedShardTables)
    /\ [][\A shard \in Shards :
              (/\ shard \in openedShardTables
               /\ shard \notin openedShardTables'
               /\ crashes' = crashes)
              => /\ shardLockList[shard].lock = 0
                 /\ shardLockList[shard].pers = 0]_vars

\* Eviction is closing a shard table while another call holds the table
\* _lockShard returned to it.
C10_Witness ==
    \E p \in Procs, q \in Procs :
        /\ pcS[p] = "use"
        /\ pcS[q] = "closing"
        /\ shardLockList[curShard[p]].lock > 0

\* C11: the ids of the rows of a shard lie in the range of the shard's
\* number, [num*shardCountStep, (num+1)*shardCountStep), and no id is held
\* by two shards, as long as every shard holds fewer than shardCountStep
\* rows; also after the shard's table was closed and opened again, and
\* after the insert that created the shard stopped before it stored a row.
C11_IdsInShardRange ==
    (\A s \in Shards : shardTables[s] < shardCountStep) =>
        /\ \A s \in Shards : \A id \in shardIds[s] :
               /\ shardNums[s] * shardCountStep <= id
               /\ id < (shardNums[s] + 1) * shardCountStep
        /\ \A s1, s2 \in Shards :
               s1 # s2 => shardIds[s1] \cap shardIds[s2] = {}

\* C12: an insert with a row that carries an id ends without a row stored
\* in any shard table, without a new shard record, with every shard count
\* and the count of infoShard as they were, in memory and in the 'shards'
\* table, and with this.lock free again for the insert that follows.
C12_RejectedInsertLeavesNothing ==
    [][\A p \in Procs :
          (pcS[p] = "rows" \/ pcS'[p] = "rows") =>
              /\ UNCHANGED <<shardTables, shardIds, shardNums, shardList,
                             shardListTable, infoShard>>
              /\ pcS[p] = "rows" => (pcS'[p] = "idle" /\ lock')]_vars

\* An insert with a row that carries an id has been rejected on a table
\* that holds rows, and this.lock is free.
C12_Witness ==
    /\ kind[1] = "rejected"
    /\ pcS[1] = "idle"
    /\ lock
    /\ infoShard > 0

\* A call of create, drop, truncate or clone on the table t holds the
\* per-table lock: it has passed get() and not yet called ret().
InCriticalSection(c, t) ==
    /\ pcD[c] = "run"
    /\ method[c] \in LockedMethods
    /\ arg[c] = t

\* C13: at any time at most one call of create, drop, truncate or clone is
\* inside its critical section for a table name, also when a drop ends
\* while other calls wait for the lock or arrive.
C13_OneInCriticalSection ==
    \A t \in Tables :
        \A c1, c2 \in Calls :
            InCriticalSection(c1, t) /\ InCriticalSection(c2, t) => c1 = c2

\* C14: when truncate({table}) of an opened on-disk table returns, the
\* table is open under its name and holds no rows, and neither the table
\* map nor the database directory holds the temporary name.
C14_TruncateLeavesEmptyOpenTable ==
    [][\A c \in Calls :
          (/\ pcD[c] = "run"
           /\ pcD'[c] = "idle"
           /\ method[c] = "truncate"
           /\ error'[c] = "") =>
              /\ table'[arg[c]] = "opened"
              /\ dirs'[arg[c]] = 0
              /\ table'[Temp(arg[c])] = "none"
              /\ dirs'[Temp(arg[c])] = -1]_vars

\* C15: select, insert, update and delete on a name the table map does not
\* hold go to _checkTable and end there with an error, 'closed' when the
\* directory of the name exists and 'does not exist' when it does not, and
\* the step changes neither the table map nor the directories.
C15_RowCallOnMissingTableFails ==
    [][\A c \in Calls :
          /\ (/\ pcD[c] = "idle"
              /\ pcD'[c] # "idle"
              /\ method'[c] \in RowMethods
              /\ table[arg'[c]] = "none") =>
                 /\ frames'[c][1].pc = "_checkTable"
                 /\ UNCHANGED <<table, dirs>>
          /\ (At(c, "_checkTable") /\ method[c] \in RowMethods) =>
                 /\ pcD'[c] = "idle"
                 /\ error'[c] = (IF dirs[arg[c]] >= 0 THEN "closed"
                                 ELSE "does not exist")
                 /\ UNCHANGED <<table, dirs>>]_vars

\* A row call has failed on a closed table, whose directory exists.
C15_Witness ==
    /\ pcD[1] = "idle"
    /\ method[1] \in RowMethods
    /\ error[1] = "closed"
    /\ table[arg[1]] = "none"
    /\ dirs[arg[1]] >= 0

\* C16: a call made while monitoring is enabled has, before its method
\* runs, a row with its id and timeEnd 0 in the monitoring table, and when
\* it ends the row of that id has a timeEnd and the error thrown.
C16_MonitoredCallRecorded ==
    [][\A c \in Calls :
          /\ (pcD[c] = "idle" /\ pcD'[c] # "idle" /\ monitoringEnabled) =>
                [id |-> frames'[c][1].mon, error |-> "", timeEnd |-> 0]
                    \in monRows'
          /\ (pcD[c] # "idle" /\ pcD'[c] = "idle" /\ frames[c][1].mon # 0) =>
                [id |-> frames[c][1].mon, error |-> error'[c], timeEnd |-> 1]
                    \in monRows']_vars

\* C17: the seed load() returns is above every id a saved delta has set,
\* deleted later or not and whether or not blockindex was dumped since, and
\* an id whose last saved record is a deletion has no row once nothing is
\* pending.
C17_SeedAboveCommittedIds ==
    /\ \A id \in Ids : committed[id] # "" => autoIncrementSeed > id
    /\ \A id \in Ids :
          (/\ committed[id] = "deleted"
           /\ pc = "idle" /\ deltas = <<>> /\ ~destroyed) => ~hasRow(id)

C19_PersistentPinSuspendsOthers ==
    [][(/\ kind[1] = "select"
        /\ pcS[1] = "unlocked"
        /\ pcS'[1] = "idle"
        /\ Cardinality(persistentAsked) >= cacheShards)
       => curShard[1] \in persistentAsked]_vars

\* C20: on a table that was empty and only got rows with shard '___auto',
\* between the calls every shard holds at least 1 and at most autoShardSize
\* rows, the shards are auto_1..auto_n without a gap, and their counts add
\* up to the rows the shard tables hold; no shard table ever holds more
\* than autoShardSize rows.
C20_AutoShardsFilledInOrder ==
    /\ \A shard \in Shards : shardTables[shard] <= autoShardSize
    /\ pcS[1] = "idle"
       => /\ \A shard \in DOMAIN shardList :
                 /\ shardList[shard] >= 1
                 /\ shardList[shard] <= autoShardSize
          /\ DOMAIN shardList = 1..Cardinality(DOMAIN shardList)
          /\ SumCount(shardList, DOMAIN shardList)
                 = SumCount(shardTables, Shards)

\* C21: when a select has returned, it has queried every shard its
\* query.shards stood for exactly once, and no other shard: every shard of
\* shardList for a query without shards, the existing shards of the list or
\* of the predicate otherwise.
C21_SelectQueriesEachShardOnce ==
    /\ \A shard \in Shards : owed[1][shard] \in {0, 1}
    /\ pcS[1] = "idle" => \A shard \in Shards : owed[1][shard] = 0

\* Whether the hash or the index specification of a query contains unique.
HasUnique(query) ==
    \/ \E i \in 1..Len(query.hash) : query.hash[i].unique
    \/ \E i \in 1..Len(query.index) : query.index[i].unique

\* C22: a create whose hash or index specification contains unique ends
\* with an Error as soon as it holds this.lock, gives the lock back, and from
\* its call to its end changes neither the meta table nor any shard's table,
\* record or cache entry.
C22_UniqueCreateRejected ==
    [][(pcS'[1] = "create" \/ pcS[1] = "create")
       /\ HasUnique(createQuery'[1])
       => /\ UNCHANGED <<metaTable, shardMeta, shardTables, shardIds,
                         shardList, shardListTable, infoShard,
                         openedShardTables>>
          /\ pcS[1] = "create"
             => /\ pcS'[1] = "idle"
                /\ lock'
                /\ thrown'[1][1] = "create"
                /\ thrown'[1][2] \in {"Unique hashes are forbidden",
                                      "Unique indexes are forbidden"}]_vars

\* C22: on a table with a shard and an index, a create with a unique index
\* in an array after a plain one has been rejected, and this.lock is free.
C22_Witness ==
    /\ thrown[1] = <<"create", "Unique indexes are forbidden">>
    /\ createQuery[1].index
           = <<[field |-> 1, unique |-> FALSE], [field |-> 2, unique |-> TRUE]>>
    /\ pcS[1] = "idle"
    /\ lock
    /\ metaTable # {}
    /\ \E shard \in Shards : shardMeta[shard] # {}

\* C23: lastSavedBlockIndex never decreases: the step of saveDelta that
\* sets it leaves it at the maximum of its previous value and the block
\* index of the delta's last blockRows entry, whatever the order in which
\* the deltas are saved.
C23_LastSavedBlockIndexIsMax ==
    [][(pc = "writeRows" /\ pc' \in {"finalize", "dump"}) =>
           /\ lastSavedBlockIndex' >= lastSavedBlockIndex
           /\ lastSavedBlockIndex' = MaxOf({lastSavedBlockIndex, lastSavedBI})]_vars

\* The fragmentation test: delCount > 0 and addCount - delCount <
\* rowsLength * 0.6, or size < maxBlockSize / 2.
Fragmented(block) ==
    \/ block.delCount > 0
       /\ 10 * (block.addCount - block.delCount) < 6 * block.rowsLength
    \/ 2 * block.size < maxBlockSize

SetOfSeq(seq) == {seq[i] : i \in 1..Len(seq)}

Defragmented ==
    /\ pc \in {"defrag", "defragLoad"}
    /\ pc' = "defrag"

C26_NoOrphanBlockFiles ==
    /\ pc \in {"idle", "done"} =>
           \A index \in DOMAIN blockFiles : index \in DOMAIN blockList
    /\ (Saving /\ saveStep \in DOMAIN deltas) =>
           \A i \in 1..Len(deltas[saveStep].delFiles) :
               deltas[saveStep].delFiles[i] \notin DOMAIN blockList

\* Whether seq ends with the records of tail.
EndsWith(seq, tail) ==
    /\ Len(tail) <= Len(seq)
    /\ \A i \in 1..Len(tail) : seq[Len(seq) - Len(tail) + i] = tail[i]

\* The journal of blockIndex holds the delta's records: at the end of
\* blockindex.1, or in the dump of the whole map that replaced it.
BlockIndexWritten(delta) ==
    IF blockindex1.exists THEN EndsWith(blockindex1.recs, delta.blockIndex)
    ELSE delta.blockIndex # <<>> => blockindex0.exists

\* The journal of blockList holds the deleted:1 record of block index, or
\* the dump that replaced it lists no such block.
DeletedWritten(index) ==
    IF blocklist1.exists THEN SeqHas(blocklist1.recs, deletedRec(index))
    ELSE /\ blocklist0.exists
         /\ \A i \in 1..Len(blocklist0.recs) : blocklist0.recs[i].index # index

\* The rows of the delta that went to blocks it has not defragmented are in
\* the files of their blocks.
BlockRowsWritten(delta) ==
    \A i \in 1..Len(delta.blockRows) :
        SeqHas(delta.delFiles, blockRowsFilePath(delta.blockRows[i][1])) \/
            /\ blockRowsFilePath(delta.blockRows[i][1]) \in DOMAIN blockFiles
            /\ MapHas(NewMap(blockFiles[blockRowsFilePath(
                                 delta.blockRows[i][1])].recs),
                      delta.blockRows[i][2])

\* C27: within one saveDelta a block file is unlinked only in the call's
\* last step, after the delta's blockindex records, its blocklist records
\* with the deleted:1 record of the block, and the new copies of the moved
\* rows have been written; no write of the delta follows an unlink.
C27_UnlinkAfterJournal ==
    [][(DOMAIN blockFiles \ DOMAIN blockFiles' # {}) =>
           /\ pc = "delFiles" /\ pc' = "done"
           /\ DOMAIN blockFiles \ DOMAIN blockFiles' =
                  SetOfSeq(deltas[saveStep].delFiles) \cap DOMAIN blockFiles
           /\ BlockIndexWritten(deltas[saveStep])
           /\ \A index \in SetOfSeq(deltas[saveStep].delFiles) :
                  DeletedWritten(index)
           /\ BlockRowsWritten(deltas[saveStep])
           /\ blockindex0' = blockindex0 /\ blockindex1' = blockindex1
           /\ blocklist0' = blocklist0 /\ blocklist1' = blocklist1]_vars

\* A saveDelta that moved a live row out of a defragmented block has
\* unlinked the block's file.
C27_Witness ==
    /\ pc = "done"
    /\ 1 \notin DOMAIN blockFiles /\ 1 \notin DOMAIN blockList
    /\ 2 \in DOMAIN blockFiles
    /\ \E id \in Ids : blockIndex[id] = 2 /\ committed[id] = "set"
    /\ \E i \in 1..Len(blocklist1.recs) :
          blocklist1.recs[i] = deletedRec(1)

\* C28: with corruption-tolerant loading, loadFile of an unfinalized file
\* that holds complete comma-terminated records followed by a part of one
\* more record returns exactly the complete records, wherever the last
\* record was cut.
C28_TolerantLoadReturnsComplete ==
    (loadResult.done /\ allowCorrupted /\ fileRecs # <<>>
        /\ fileBuf # Header \o joinRecs(fileRecs)) =>
        /\ loadResult.ok
        /\ loadResult.arr = fileRecs

\* The positions at which a call is between fLock.get() and fLock.ret().
HoldsFileLock(p) == pcF[p] \in {"locked", "reading", "exists", "unlink"}

\* C29: a loadBlock read of a block rows file and saveDelta's unlink of the
\* file never overlap: a call between get() and ret() holds the queue it
\* got from getFileLock alone, and no caller reads the file while saveDelta
\* is between get() and ret(), also not a reader that waited in the queue
\* when saveDelta deleted the entry of fileLockMap.
C29_ReadAndUnlinkExcluded ==
    /\ \A p \in Readers :
          pcF[p] = "reading" => ~HoldsFileLock(Unlinker)
    /\ \A p \in Readers \cup {Unlinker} :
          HoldsFileLock(p) =>
              /\ queueOf[p] \in 1..Len(fileQueues)
              /\ ~fileQueues[queueOf[p]].freed
              /\ \A q \in (Readers \cup {Unlinker}) \ {p} :
                    HoldsFileLock(q) => queueOf[q] # queueOf[p]

\* A reader that waited in the queue while saveDelta held it reads under
\* that queue after saveDelta has deleted the entry of fileLockMap.
C29_Witness ==
    /\ pcF[Unlinker] = "done"
    /\ \E p \in Readers :
          /\ pcF[p] = "reading"
          /\ queueOf[p] = queueOf[Unlinker]
          /\ queueOf[p] # fileLockMap

\* A step that is the eviction pass the timer of unloadBlocksIfNeeded runs.
EvictionPass == unloadTimer /\ ~unloadTimer' /\ destroyed' = destroyed

\* C30: right after an eviction pass at most loadedBlocksCount blocks below
\* lastSavedBlockIndex hold their rows in memory, the pass has unloaded no
\* block at or above lastSavedBlockIndex, and every loaded block below
\* lastSavedBlockIndex is in loadedBlocks, where a later pass finds it.
C30_EvictionPassBoundsLoaded ==
    [][EvictionPass =>
           /\ Cardinality({b \in DOMAIN blockList' :
                              b < lastSavedBlockIndex /\ blockList'[b].loaded})
                  <= loadedBlocksCount
           /\ \A b \in DOMAIN blockList :
                 (b >= lastSavedBlockIndex /\ blockList[b].loaded)
                     => blockList'[b].loaded
           /\ \A b \in DOMAIN blockList' :
                 (b < lastSavedBlockIndex /\ blockList'[b].loaded)
                     => SeqHas(loadedBlocks', b)]_vars

\* C31: currentBlockIndex is at every time greater than or equal to the index
\* of every block in blockList, whatever the sequence of load, loadCorrupted,
\* setRow and saveDelta.
C31_CurrentBlockIndexIsGreatest ==
    \A b \in DOMAIN blockList : b <= currentBlockIndex

\* The saveDelta in progress found its delta empty (no setRow had written to
\* it), no other delta is pending, and both journals hold nothing but what
\* this call wrote: the saveDelta before it dumped both maps.
EmptyDeltaAfterDump ==
    /\ lastSavedBI = 0
    /\ DOMAIN deltas = {saveStep}
    /\ blockindex0.exists /\ blocklist0.exists
    /\ Len(blockindex1.recs) = Len(deltas[saveStep].blockIndex)
    /\ Len(blocklist1.recs) =
           Len(blockListBuf(deltas[saveStep].blockList, 1, 0, <<>>))

\* C32: a saveDelta with an empty delta issued right after a saveDelta that
\* finalized blocks and dumped the maps triggers no new dump: blockindex.0
\* and blocklist.0 stay as they are.
C32_EmptyDeltaKeepsDumps ==
    [][(pc = "dump" /\ pc' # "failed" /\ EmptyDeltaAfterDump) =>
           /\ blockindex0' = blockindex0
           /\ blocklist0' = blocklist0]_vars

\* load() has succeeded on the files a process left that stopped inside
\* saveDelta.
LoadedAfterCrash == pc \in Yield \ {"idle"} /\ pc' = "idle" /\ deltas' = <<>>

\* C33: when the process stops inside saveDelta, a load() that succeeds yields
\* a blockIndex in which every id maps to a block of the recovered blockList
\* whose file contains the id.
C33_CrashLeavesIndexResolvable ==
    [][LoadedAfterCrash =>
           \A id \in Ids :
              blockIndex'[id] # 0 =>
                 /\ blockIndex'[id] \in DOMAIN blockList'
                 /\ \E file \in {loadFile(blockFiles',
                                          blockRowsFilePath(blockIndex'[id]))} :
                       file.ok /\ MapHas(NewMap(file.arr), id)]_vars

\* The instances that are opened on the directory of the table t.
OpenedOn(t) == {i \in 1..Len(insts) : insts[i].t = t /\ insts[i].opened}

\* C34: for each table at most one instance opened on its directory exists,
\* and it is the instance registered in the table map, under any
\* interleaving of open, close and create.
C34_OneRegisteredInstance ==
    \A t \in Tables :
       /\ Cardinality(OpenedOn(t)) <= 1
       /\ \A i \in OpenedOn(t) : tableMap[t] = i

\* C35: after unlock() has returned and every call on the database has
\* ended, the table map is empty and no table instance is opened, also
\* when open or create was called while unlock was closing the tables or
\* releasing the file lock.
C35_UnlockLeavesNothingOpen ==
    (pcU = "done" /\ \A c \in Procs : pcT[c] = "idle") =>
       /\ \A t \in Tables : tableMap[t] = NoInst
       /\ \A i \in 1..Len(insts) : ~insts[i].opened

\* C36: a call of a wrapped method gives its caller the outcome of the
\* original method, the value it returns or the error it throws, also when
\* an insert of the monitoring record fails before or after the call.
C36_WrapperKeepsOutcome ==
    [][\A c \in Procs :
          (pcW[c] # "idle" /\ pcW'[c] = "idle") => outW'[c] = origW[c]]_vars

\* C37: when open() of a sharded table fails before the meta tables are
\* loaded (no tablePath, a wrong or missing type file, a state file that
\* is not '1'), the caller gets the error 'Open table (<path>): <cause>'
\* with the message of the cause, and the instance is closed and not
\* opened.
C37_EarlyOpenFailureIsWrapped ==
    [][\A c \in Procs :
          (pcO[c] # "idle" /\ pcO'[c] = "idle" /\ causeO[c] \in EarlyCauses)
             => /\ errO'[c] = <<"Open table", causeO[c]>>
                /\ instO'.closed /\ ~instO'.opened]_vars

\* C38: a block file that has been rewritten in finalized form (flag 1 or
\* 2) gets no row appended: while the file exists, no step changes it.
C38_NoAppendToFinalFile ==
    [][\A b \in DOMAIN blockFiles :
          (blockFiles[b].flag # 0 /\ b \in DOMAIN blockFiles')
             => blockFiles'[b] = blockFiles[b]]_vars

C40_FailedOpenLeavesMap ==
    [][\A c \in Procs :
          (pcT[c] = "opening" /\ pcT'[c] = "idle" /\ errT'[c] = "table open throws")
             => tableMap'[argT[c]] # instT[c]]_vars

====
